---- MODULE Spec2Model ----
(***************************************************************************)
(* A model of the declarative workflow engine of the RPA framework:        *)
(* rpa/workflows/automation.py (AutomationWorkflow, AutomationStep).       *)
(*                                                                         *)
(* Python values are tagged records [t |-> type, v |-> payload].  A Python *)
(* str is a sequence of one-character strings, so that the regular         *)
(* expression search and str.replace of _resolve_value are computed and    *)
(* not assumed.  Dict keys and context keys are Python strs as well.       *)
(***************************************************************************)
EXTENDS Integers, Sequences, FiniteSets, TLC

\* ------------------------------------------------------------------ bounds

\* Most steps a caller appends to one workflow.
MaxSteps == 3
\* Largest retry_count a caller gives a step.
MaxRetry == 1
\* Most pieces a template string is assembled from.
MaxParts == 3
\* Most steps a caller appends to one base workflow.
MaxWorkflowSteps == 2
\* Most calls of Workflow.run on one base workflow.
MaxRuns == 2
\* Most words of a command given to _parse_with_rules.
MaxWords == 3
\* Most words of a command given to parse.
MaxLlmWords == 2
\* Most calls of process on one interface.
MaxCommands == 2
\* Most background threads one scheduler starts.
MaxThreads == 3

\* ------------------------------------------------------- program constants

\* AutomationStep.retry_delay, seconds slept between two attempts.
DefaultRetryDelay == 1
\* The result preview of a completed record keeps this many characters.
PreviewLen == 200

\* ------------------------------------------------------------ Python values

StrV(s) == [t |-> "str", v |-> s]
IntV(n) == [t |-> "int", v |-> n]
ListV(l) == [t |-> "list", v |-> l]
DictV(d) == [t |-> "dict", v |-> d]
NoneV == [t |-> "none", v |-> 0]

\* An empty dict, and the dict literal {k: val}.
EmptyDict == [k \in {} |-> NoneV]
Dict1(k, val) == [q \in {k} |-> val]

\* An assignment that keeps the value a key already has.
PutIfAbsent(d, k, val) == [q \in DOMAIN d \cup {k} |-> IF q \in DOMAIN d THEN d[q] ELSE val]

\* d[k] = val on a dict or on the context.
Put(d, k, val) == [q \in DOMAIN d \cup {k} |-> IF q = k THEN val ELSE d[q]]

\* bool(value)
Truthy(value) ==
  CASE value.t = "none" -> FALSE
    [] value.t = "str" -> Len(value.v) > 0
    [] value.t = "int" -> value.v # 0
    [] value.t = "list" -> Len(value.v) > 0
    [] value.t = "dict" -> DOMAIN value.v # {}
    [] value.t = "bool" -> value.v
    [] OTHER -> TRUE

\* The characters the regular expression class \w accepts.
WordChars ==
  { "a", "b", "c", "d", "e", "f", "g", "h", "i", "j", "k", "l", "m",
    "n", "o", "p", "q", "r", "s", "t", "u", "v", "w", "x", "y", "z",
    "0", "1", "2", "3", "4", "5", "6", "7", "8", "9", "_" }

Digit(n) == <<"0", "1", "2", "3", "4", "5", "6", "7", "8", "9">>[n + 1]

RECURSIVE NatStr(_)
NatStr(n) == IF n < 10 THEN <<Digit(n)>> ELSE NatStr(n \div 10) \o <<Digit(n % 10)>>

\* sep.join(parts)
RECURSIVE Join(_, _)
Join(parts, sep) ==
  IF parts = <<>> THEN <<>>
  ELSE IF Len(parts) = 1 THEN parts[1]
  ELSE parts[1] \o sep \o Join(Tail(parts), sep)

\* The keys of a dict in the order str() prints them.  The dicts of this
\* model hold at most one key, for which insertion order is the only order.
RECURSIVE KeySeq(_)
KeySeq(keys) ==
  IF keys = {} THEN <<>>
  ELSE LET k == CHOOSE q \in keys : TRUE IN <<k>> \o KeySeq(keys \ {k})

\* repr(value) and str(value)
RECURSIVE PyRepr(_)
PyRepr(value) ==
  CASE value.t = "str" -> <<"'">> \o value.v \o <<"'">>
    [] value.t = "int" ->
         IF value.v < 0 THEN <<"-">> \o NatStr(-value.v) ELSE NatStr(value.v)
    [] value.t = "none" -> <<"N", "o", "n", "e">>
    [] value.t = "list" ->
         <<"[">> \o Join([j \in 1..Len(value.v) |-> PyRepr(value.v[j])], <<",", " ">>)
                 \o <<"]">>
    [] value.t = "dict" ->
         LET keys == KeySeq(DOMAIN value.v) IN
         <<"{">> \o Join([j \in 1..Len(keys) |->
                           PyRepr(StrV(keys[j])) \o <<":", " ">> \o PyRepr(value.v[keys[j]])],
                         <<",", " ">>)
                 \o <<"}">>
    [] OTHER -> <<"<", "o", "b", "j", "e", "c", "t", ">">>

PyStr(value) == IF value.t = "str" THEN value.v ELSE PyRepr(value)

\* ------------------------------------------------------ template resolution

\* f"{{{{{var_name}}}}}": the placeholder text of a variable name.
Placeholder(var_name) == <<"{", "{">> \o var_name \o <<"}", "}">>

\* The end of the longest run of \w characters of s that starts at p
\* (p - 1 when s[p] is no \w character).
RECURSIVE WordEnd(_, _)
WordEnd(s, p) ==
  IF p <= Len(s) /\ s[p] \in WordChars THEN WordEnd(s, p + 1) ELSE p - 1

\* re.findall(r'\{\{(\w+)\}\}', s), scanning from position p: the captured
\* names of the non-overlapping matches, leftmost first.
RECURSIVE FindAllFrom(_, _)
FindAllFrom(s, p) ==
  IF p > Len(s) THEN <<>>
  ELSE LET e == WordEnd(s, p + 2) IN
       IF /\ p + 1 <= Len(s)
          /\ s[p] = "{"
          /\ s[p + 1] = "{"
          /\ e >= p + 2
          /\ e + 2 <= Len(s)
          /\ s[e + 1] = "}"
          /\ s[e + 2] = "}"
       THEN <<SubSeq(s, p + 2, e)>> \o FindAllFrom(s, e + 3)
       ELSE FindAllFrom(s, p + 1)

FindAll(s) == FindAllFrom(s, 1)

\* s.replace(old, new) for a non-empty old.
RECURSIVE Replace(_, _, _)
Replace(s, old, new) ==
  IF Len(s) < Len(old) THEN s
  ELSE IF SubSeq(s, 1, Len(old)) = old
       THEN new \o Replace(SubSeq(s, Len(old) + 1, Len(s)), old, new)
       ELSE <<Head(s)>> \o Replace(Tail(s), old, new)

\* A resolution that interpolates every placeholder, the lone one included.
RECURSIVE ResolveMatchesAlwaysInterpolate(_, _, _)
ResolveMatchesAlwaysInterpolate(text, matches, ctx) ==
  IF matches = <<>> THEN StrV(text)
  ELSE LET var_name == Head(matches) IN
       IF var_name \in DOMAIN ctx
       THEN ResolveMatchesAlwaysInterpolate(
              Replace(text, Placeholder(var_name), PyStr(ctx[var_name])), Tail(matches), ctx)
       ELSE ResolveMatchesAlwaysInterpolate(text, Tail(matches), ctx)

\* The loop of _resolve_value over the names found, on the current text.
RECURSIVE ResolveMatches(_, _, _)
ResolveMatches(text, matches, ctx) ==
  IF matches = <<>> THEN StrV(text)
  ELSE LET var_name == Head(matches) IN
       IF var_name \in DOMAIN ctx
       THEN IF text = Placeholder(var_name)
            THEN ctx[var_name]
            ELSE ResolveMatches(Replace(text, Placeholder(var_name), PyStr(ctx[var_name])),
                                Tail(matches), ctx)
       ELSE ResolveMatches(text, Tail(matches), ctx)

\* AutomationWorkflow._resolve_value against the context ctx.
RECURSIVE ResolveValue(_, _)
ResolveValue(value, ctx) ==
  CASE value.t = "str" -> ResolveMatches(value.v, FindAll(value.v), ctx)
    [] value.t = "dict" ->
         DictV([k \in DOMAIN value.v |-> ResolveValue(value.v[k], ctx)])
    [] value.t = "list" ->
         ListV([j \in 1..Len(value.v) |-> ResolveValue(value.v[j], ctx)])
    [] OTHER -> value

\* ------------------------------------------------------------- step model

\* Python strs that occur as dict keys, context keys and file contents.
S_path == <<"p", "a", "t", "h">>
S_action == <<"a", "c", "t", "i", "o", "n">>
S_url == <<"u", "r", "l">>
S_message == <<"m", "e", "s", "s", "a", "g", "e">>
S_x == <<"x">>
S_y == <<"y">>
S_a == <<"a">>

\* The names callers give the steps they append, one per position.
StepNames == <<"A", "B", "C", "D", "E", "F">>

\* AutomationStep(name, step_type, params) with the dataclass defaults.
AutomationStep(name, step_type, params) ==
  [ name |-> name,
    step_type |-> step_type,
    params |-> params,
    condition |-> NoneV,
    on_error |-> "fail",
    retry_count |-> 0,
    retry_delay |-> DefaultRetryDelay,
    save_result_as |-> NoneV,
    depends_on |-> <<>> ]

\* A condition: a str holding a Python expression, kept whole.
CondV(expression) == [t |-> "expr", v |-> expression]

\* An evaluation that takes an error for a false condition.
EvalConditionErrorIsFalse(condition, ctx) ==
  CASE condition.v = "False" -> "false"
    [] condition.v = "True" -> "true"
    [] condition.v = "context['x']" ->
         IF S_x \in DOMAIN ctx /\ Truthy(ctx[S_x]) THEN "true" ELSE "false"
    [] condition.v = "context.get('x')" ->
         IF S_x \in DOMAIN ctx /\ Truthy(ctx[S_x]) THEN "true" ELSE "false"
    [] OTHER -> "false"

\* eval(step.condition, {"context": ctx}) for the expressions callers use
\* here: "true", "false", or "raise" when the evaluation raises.
EvalCondition(condition, ctx) ==
  CASE condition.v = "False" -> "false"
    [] condition.v = "True" -> "true"
    [] condition.v = "context['x']" ->
         IF S_x \notin DOMAIN ctx THEN "raise"
         ELSE IF Truthy(ctx[S_x]) THEN "true" ELSE "false"
    [] condition.v = "context.get('x')" ->
         IF S_x \in DOMAIN ctx /\ Truthy(ctx[S_x]) THEN "true" ELSE "false"
    [] OTHER -> "raise"

\* `if step.condition:` of run.
HasCondition(step) == step.condition.t # "none" /\ step.condition.v # ""

\* What one call of _execute_step can do: return a result or raise, after
\* `took` seconds.  The files and api modules are stubs that either raise or
\* return the one value the stubbed environment holds for that operation.
Returned(result, took) == [ok |-> TRUE, result |-> result, error |-> "", took |-> took]
Raised(error) == [ok |-> FALSE, result |-> NoneV, error |-> error, took |-> 0]

FileText == StrV(S_a)
FileList == ListV(<<StrV(S_a), StrV(<<"b">>)>>)
ApiResponse == DictV(Dict1(<<"k">>, IntV(7)))

\* AutomationWorkflow._execute_step with params already resolved.
ExecuteResolved(step_type, params) ==
  CASE step_type = "read_file" ->
         IF S_path \notin DOMAIN params THEN {Raised("KeyError")}
         ELSE {Raised("IOError"), Returned(FileText, 0)}
    [] step_type = "list_files" ->
         IF S_path \notin DOMAIN params THEN {Raised("KeyError")}
         ELSE {Raised("IOError"), Returned(FileList, 0)}
    [] step_type = "api_call" ->
         IF S_url \notin DOMAIN params THEN {Raised("KeyError")}
         ELSE {Raised("IOError"), Returned(ApiResponse, 0)}
    [] step_type = "log_message" ->
         IF S_message \notin DOMAIN params THEN {Raised("KeyError")}
         ELSE {Returned(params[S_message], 0)}
    [] step_type = "custom" ->
         IF S_action \notin DOMAIN params THEN {Raised("KeyError")}
         ELSE IF params[S_action].t # "callable" THEN {Raised("TypeError")}
         ELSE CASE params[S_action].v = "returns" -> {Returned(FileText, 0)}
                [] params[S_action].v = "raises" -> {Raised("RuntimeError")}
                [] params[S_action].v = "flaky" ->
                     {Returned(FileText, 0), Raised("RuntimeError")}
                [] OTHER -> {Raised("TypeError")}
    [] OTHER -> {Raised("ValueError")}

\* time.sleep(seconds) raises ValueError for a negative length.
SleepRaises(seconds) == seconds < 0

\* A retry loop that allows one attempt too many.
MaxAttemptsOffByOne(step) == step.retry_count + 2

\* max_attempts = step.retry_count + 1
MaxAttempts(step) == step.retry_count + 1

\* An executor for which a skipped step fails the run all the same.
OnExhaustedAlwaysFatal(step, error) ==
  IF step.on_error = "skip"
  THEN [record |-> [name |-> step.name, status |-> "skipped", error |-> error],
        fatal |-> TRUE]
  ELSE [record |-> [name |-> step.name, status |-> "failed", error |-> error],
        fatal |-> TRUE]

\* run, lines 718-733: the record of a step whose attempts are used up, and
\* whether it fails the run.
OnExhausted(step, error) ==
  IF step.on_error = "skip"
  THEN [record |-> [name |-> step.name, status |-> "skipped", error |-> error],
        fatal |-> FALSE]
  ELSE [record |-> [name |-> step.name, status |-> "failed", error |-> error],
        fatal |-> TRUE]

\* Params resolved when the step is built, before any variable is saved.
ResolveParamsAtConstruction(step, ctx) == ResolveValue(DictV(step.params), EmptyDict).v

\* params = self._resolve_value(step.params)
ResolveParams(step, ctx) == ResolveValue(DictV(step.params), ctx).v

\* A custom step whose action is popped from the step's own params, not
\* from the resolved copy.
ParamsAfterExecutePopped(step) ==
  IF step.step_type = "custom"
  THEN [k \in DOMAIN step.params \ {S_action} |-> step.params[k]]
  ELSE step.params

\* step.params once _execute_step is over: line 453 resolves into a new
\* dict, and line 635 pops the action from that copy.
ParamsAfterExecute(step) == step.params

\* AutomationWorkflow._execute_step(step) against the context ctx: the
\* outcomes it can have, each with the params the operation was given (for
\* a custom step, what is left once the action is popped).
ExecuteStep(step, ctx) ==
  LET params == ResolveParams(step, ctx)
      given == IF step.step_type = "custom"
               THEN [k \in DOMAIN params \ {S_action} |-> params[k]]
               ELSE params
  IN
  { [o EXCEPT !.params = given] :
      o \in { [ok |-> r.ok, result |-> r.result, error |-> r.error, took |-> r.took,
               params |-> EmptyDict] : r \in ExecuteResolved(step.step_type, params) } }

\* The entry of the dispatch log for one call of _execute_step.
Dispatch(i, out) ==
  [step |-> i, params |-> out.params, raised |-> ~out.ok, result |-> out.result,
   error |-> out.error]

\* str(step_result)[:200] if step_result else None
Preview(result) ==
  IF Truthy(result)
  THEN StrV(SubSeq(PyStr(result), 1,
                   IF Len(PyStr(result)) < PreviewLen THEN Len(PyStr(result)) ELSE PreviewLen))
  ELSE NoneV

\* ------------------------------------------- the base workflow (base.py)

\* WorkflowStep.retry_delay, seconds slept between two attempts.
StepRetryDelay == 1

\* A callable, known by what a call of it does: "returns", "raises" or
\* "flaky" (either) for actions and callbacks, "true", "false" or "raises"
\* for conditions.
CallableV(does) == [t |-> "callable", v |-> does]
BoolV(b) == [t |-> "bool", v |-> b]
\* datetime.now() at clock value n, and an exception object.
DateTime(n) == [t |-> "datetime", v |-> n]
ExcV(message) == [t |-> "exception", v |-> message]

\* What a call of f can do.
Call(f) ==
  CASE f.v = "returns" -> {Returned(FileText, 0)}
    [] f.v = "raises" -> {Raised("RuntimeError")}
    [] f.v = "flaky" -> {Returned(FileText, 0), Raised("RuntimeError")}
    [] f.v = "true" -> {Returned(BoolV(TRUE), 0)}
    [] f.v = "false" -> {Returned(BoolV(FALSE), 0)}
    [] OTHER -> {Raised("TypeError")}

\* WorkflowStep(name, action, ...) as add_step builds it.
WorkflowStep(name, action) ==
  [ name |-> name,
    action |-> action,
    condition |-> NoneV,
    on_error |-> NoneV,
    retry_count |-> 0,
    retry_delay |-> StepRetryDelay,
    status |-> "pending",
    result |-> NoneV,
    error |-> NoneV,
    started_at |-> NoneV,
    completed_at |-> NoneV ]

\* WorkflowStep.duration
StepDuration(s) ==
  IF Truthy(s.started_at) /\ Truthy(s.completed_at)
  THEN IntV(s.completed_at.v - s.started_at.v)
  ELSE NoneV

\* f"step_{step.name}_result"
ResultKey(step_name) ==
  <<"s", "t", "e", "p", "_", step_name, "_", "r", "e", "s", "u", "l", "t">>

\* A reset that leaves the error of a step in place.
ResetStepKeepsError(s) ==
  [s EXCEPT !.status = "pending", !.result = NoneV,
            !.started_at = NoneV, !.completed_at = NoneV]

\* reset, lines 248-253: the execution state of one step is cleared.
ResetStep(s) ==
  [s EXCEPT !.status = "pending", !.result = NoneV, !.error = NoneV,
            !.started_at = NoneV, !.completed_at = NoneV]

\* The entry of one step in the report of run.
StepEntry(s) ==
  [ status |-> s.status,
    duration |-> StepDuration(s),
    result |-> s.result,
    error |-> IF Truthy(s.error) THEN [t |-> "str", v |-> s.error.v] ELSE NoneV ]

\* run, lines 226-234: the dict comprehension keyed by step name; of two
\* steps with one name the later one's entry stays.
StepEntries(ss) ==
  [ n \in { ss[i].name : i \in 1..Len(ss) } |->
      LET last == CHOOSE i \in 1..Len(ss) :
                    /\ ss[i].name = n
                    /\ \A j \in 1..Len(ss) : ss[j].name = n => j <= i
      IN StepEntry(ss[last]) ]

\* ----------------------------------------- serialization (to_json, from_json)

\* A Python tuple.
TupleV(l) == [t |-> "tuple", v |-> l]

\* The values of the StepType enum.  A member of the enum is known by its
\* value, so .value and StepType(value) are lookups in this set.
StepTypeValues ==
  { "read_file", "write_file", "copy_file", "move_file", "delete_file", "list_files",
    "create_directory", "read_csv", "write_csv", "read_excel", "write_excel",
    "filter_data", "transform_data", "http_get", "http_post", "scrape_page", "api_call",
    "download_file", "create_word", "fill_form", "create_pdf", "merge_pdfs",
    "extract_pdf_text", "db_query", "db_insert", "db_update", "send_email",
    "log_message", "condition", "loop", "parallel", "wait", "custom" }

\* json.dumps accepts the value: str, int, bool and None, and lists, tuples
\* and dicts of such; it raises TypeError on anything else.
RECURSIVE Serializable(_)
Serializable(val) ==
  CASE val.t \in {"str", "int", "none", "bool", "expr"} -> TRUE
    [] val.t \in {"list", "tuple"} -> \A j \in 1..Len(val.v) : Serializable(val.v[j])
    [] val.t = "dict" -> \A k \in DOMAIN val.v : Serializable(val.v[k])
    [] OTHER -> FALSE

\* The JSON document json.dumps writes for a value: lists and tuples alike
\* become arrays.
RECURSIVE JsonDump(_)
JsonDump(val) ==
  CASE val.t \in {"str", "expr"} -> [j |-> "string", v |-> val.v]
    [] val.t = "int" -> [j |-> "number", v |-> val.v]
    [] val.t = "bool" -> [j |-> "boolean", v |-> val.v]
    [] val.t \in {"list", "tuple"} ->
         [j |-> "array", v |-> [i \in 1..Len(val.v) |-> JsonDump(val.v[i])]]
    [] val.t = "dict" ->
         [j |-> "object", v |-> [k \in DOMAIN val.v |-> JsonDump(val.v[k])]]
    [] OTHER -> [j |-> "null", v |-> 0]

\* The Python value json.loads reads from a JSON document: arrays become
\* lists.
RECURSIVE JsonLoad(_)
JsonLoad(doc) ==
  CASE doc.j = "string" -> StrV(doc.v)
    [] doc.j = "number" -> IntV(doc.v)
    [] doc.j = "boolean" -> BoolV(doc.v)
    [] doc.j = "array" -> ListV([i \in 1..Len(doc.v) |-> JsonLoad(doc.v[i])])
    [] doc.j = "object" -> DictV([k \in DOMAIN doc.v |-> JsonLoad(doc.v[k])])
    [] OTHER -> NoneV

\* to_json, line 776: {k: v for k, v in step.params.items() if not callable(v)}
ExportedParams(params) ==
  [k \in { q \in DOMAIN params : params[q].t # "callable" } |-> params[k]]

\* to_json, lines 774-782: the entry of one step.  retry_delay and
\* depends_on are not written.
StepToJson(step) ==
  [ name |-> [j |-> "string", v |-> step.name],
    type |-> [j |-> "string", v |-> step.step_type],
    params |-> JsonDump(DictV(ExportedParams(step.params))),
    condition |-> JsonDump(step.condition),
    on_error |-> [j |-> "string", v |-> step.on_error],
    retry_count |-> JsonDump(IntV(step.retry_count)),
    save_result_as |-> JsonDump(step.save_result_as) ]

\* to_json raises: json.dumps meets a value it cannot encode.
ToJsonRaises(ss) ==
  \E i \in 1..Len(ss) : ~Serializable(DictV(ExportedParams(ss[i].params)))

\* from_json, lines 792-801: the AutomationStep built from one entry.
StepFromJson(step_data) ==
  [ AutomationStep(step_data.name.v, step_data.type.v, JsonLoad(step_data.params).v)
      EXCEPT !.condition = IF step_data.condition.j = "null" THEN NoneV
                           ELSE CondV(step_data.condition.v),
             !.on_error = step_data.on_error.v,
             !.retry_count = JsonLoad(step_data.retry_count).v,
             !.save_result_as = JsonLoad(step_data.save_result_as) ]

\* ------------------------------------ intent patterns and rules (core/nlp.py)

\* The values of IntentType.
IntentTypeValues ==
  { "read_file", "write_file", "copy_file", "move_file", "delete_file",
    "list_files", "read_spreadsheet", "write_spreadsheet", "create_document",
    "fill_form", "create_pdf", "extract_pdf", "fetch_url", "scrape_page",
    "api_call", "send_email", "query_database", "run_workflow",
    "schedule_task", "run_command", "help", "status", "cancel", "unknown" }

\* Elements of a compiled pattern: a literal and (?:...)? here, and the
\* records "ws" for \s+, "any" for (.+), "bol" for ^ and "eol" for $.
\* The texts of this model are lower case, where re.I changes nothing.
Lit(chars) == [k |-> "lit", s |-> chars]
Opt(pattern) == [k |-> "opt", p |-> pattern]

\* The ways `pattern` matches s from position p on, in the order the
\* backtracking matcher tries them (greedy first): the position after the
\* match and the span of group 1 (<<>> when the group took no part).
RECURSIVE Ends(_, _, _, _)
Ends(pattern, s, p, g) ==
  IF pattern = <<>> THEN << [e |-> p, g |-> g] >>
  ELSE LET el == Head(pattern)
           rest == Tail(pattern)
       IN CASE el.k = "lit" ->
                 IF /\ p + Len(el.s) - 1 <= Len(s)
                    /\ SubSeq(s, p, p + Len(el.s) - 1) = el.s
                 THEN Ends(rest, s, p + Len(el.s), g)
                 ELSE <<>>
            [] el.k = "ws" ->
                 IF p <= Len(s) /\ s[p] = " "
                 THEN Ends(pattern, s, p + 1, g) \o Ends(rest, s, p + 1, g)
                 ELSE <<>>
            [] el.k = "opt" ->
                 Ends(el.p \o rest, s, p, g) \o Ends(rest, s, p, g)
            [] el.k = "any" ->
                 Ends(<< [k |-> "more", from |-> p] >> \o rest, s, p, g)
            [] el.k = "more" ->
                 IF p <= Len(s)
                 THEN Ends(pattern, s, p + 1, g)
                        \o Ends(rest, s, p + 1, << el.from, p >>)
                 ELSE <<>>
            [] el.k = "bol" -> IF p = 1 THEN Ends(rest, s, p, g) ELSE <<>>
            [] el.k = "eol" ->
                 IF p = Len(s) + 1 THEN Ends(rest, s, p, g) ELSE <<>>

\* pattern.search(s): the leftmost match, the first the matcher finds
\* there; NoMatch is the None it returns otherwise.
NoMatch == [start |-> 0, end |-> 0, g |-> <<>>]
Search(pattern, s) ==
  LET starts == { p \in 1..(Len(s) + 1) : Ends(pattern, s, p, <<>>) # <<>> }
  IN IF starts = {} THEN NoMatch
     ELSE LET p == CHOOSE q \in starts : \A r \in starts : q <= r
              m == Ends(pattern, s, p, <<>>)[1]
          IN [start |-> p, end |-> m.e, g |-> m.g]

\* _build_intent_patterns, in the order parse walks it (intent by intent,
\* pattern by pattern), for the patterns a text of RuleCommands can match
\* with a confidence no earlier pattern reaches:
\*   line 99  read_file    read\s+(?:the\s+)?(?:file\s+)?(.+)
\*   line 101  read_file    show\s+(?:me\s+)?(?:the\s+)?(?:contents?\s+of\s+)?(.+)
\*   line 123  list_files   list\s+(?:all\s+)?files?$
\*   line 146  fill_form    populate\s+(?:the\s+)?(?:form\s+)?(.+)?
\*   line 155  extract_pdf  read\s+(?:the\s+)?pdf\s+(.+)
\*   line 186  help         ^help$
\*   line 192  status       ^status$
\*   line 194  status       show\s+(?:me\s+)?(?:the\s+)?status
IntentPatterns ==
  << [intent |-> "read_file",
      pattern |-> << Lit(<<"r", "e", "a", "d">>), [k |-> "ws"],
                    Opt(<<Lit(<<"t", "h", "e">>), [k |-> "ws"]>>),
                    Opt(<<Lit(<<"f", "i", "l", "e">>), [k |-> "ws"]>>),
                    [k |-> "any"] >>],
     [intent |-> "read_file",
      pattern |-> << Lit(<<"s", "h", "o", "w">>), [k |-> "ws"],
                    Opt(<<Lit(<<"m", "e">>), [k |-> "ws"]>>),
                    Opt(<<Lit(<<"t", "h", "e">>), [k |-> "ws"]>>),
                    Opt(<<Lit(<<"c", "o", "n", "t", "e", "n", "t">>), Opt(<<Lit(<<"s">>)>>), [k |-> "ws"], 
                        Lit(<<"o", "f">>), [k |-> "ws"]>>),
                    [k |-> "any"] >>],
     [intent |-> "list_files",
      pattern |-> << Lit(<<"l", "i", "s", "t">>), [k |-> "ws"],
                    Opt(<<Lit(<<"a", "l", "l">>), [k |-> "ws"]>>),
                    Lit(<<"f", "i", "l", "e">>), Opt(<<Lit(<<"s">>)>>),
                    [k |-> "eol"] >>],
     [intent |-> "fill_form",
      pattern |-> << Lit(<<"p", "o", "p", "u", "l", "a", "t", "e">>),
                    [k |-> "ws"],
                    Opt(<<Lit(<<"t", "h", "e">>), [k |-> "ws"]>>),
                    Opt(<<Lit(<<"f", "o", "r", "m">>), [k |-> "ws"]>>),
                    Opt(<<[k |-> "any"]>>) >>],
     [intent |-> "extract_pdf",
      pattern |-> << Lit(<<"r", "e", "a", "d">>), [k |-> "ws"],
                    Opt(<<Lit(<<"t", "h", "e">>), [k |-> "ws"]>>),
                    Lit(<<"p", "d", "f">>), [k |-> "ws"], [k |-> "any"] >>],
     [intent |-> "help",
      pattern |-> << [k |-> "bol"], Lit(<<"h", "e", "l", "p">>), [k |-> "eol"] >>],
     [intent |-> "status",
      pattern |-> << [k |-> "bol"], Lit(<<"s", "t", "a", "t", "u", "s">>),
                    [k |-> "eol"] >>],
     [intent |-> "status",
      pattern |-> << Lit(<<"s", "h", "o", "w">>), [k |-> "ws"],
                    Opt(<<Lit(<<"m", "e">>), [k |-> "ws"]>>),
                    Opt(<<Lit(<<"t", "h", "e">>), [k |-> "ws"]>>),
                    Lit(<<"s", "t", "a", "t", "u", "s">>) >>] >>

\* min(0.9, coverage + 0.3) for a match of m of the n characters, as the
\* float arithmetic gives it: the fraction num/den less `ulps` units in the
\* last place (0.6 + 0.3 is 0.8999999999999999 in floats, below 0.9).
Confidence(m, n) ==
  IF 5 * m > 3 * n THEN [num |-> 9, den |-> 10, ulps |-> 0]
  ELSE IF 5 * m = 3 * n THEN [num |-> 9, den |-> 10, ulps |-> 1]
  ELSE [num |-> 10 * m + 3 * n, den |-> 10 * n, ulps |-> 0]

\* confidence >= best_confidence: the last of equally confident rules wins.
BetterOrEqual(confidence, best_confidence) ==
  \/ confidence.num * best_confidence.den
       > best_confidence.num * confidence.den
  \/ /\ confidence.num * best_confidence.den
          = best_confidence.num * confidence.den
     /\ confidence.ulps <= best_confidence.ulps

\* confidence > best_confidence.
Better(confidence, best_confidence) ==
  \/ confidence.num * best_confidence.den
       > best_confidence.num * confidence.den
  \/ /\ confidence.num * best_confidence.den
          = best_confidence.num * confidence.den
     /\ confidence.ulps < best_confidence.ulps

\* str.strip(chars).
RECURSIVE StripChars(_, _)
StripChars(s, chars) ==
  IF s # <<>> /\ Head(s) \in chars THEN StripChars(Tail(s), chars)
  ELSE IF s # <<>> /\ s[Len(s)] \in chars
       THEN StripChars(SubSeq(s, 1, Len(s) - 1), chars)
       ELSE s

\* _extract_entities for the intents of IntentPatterns: groups[0], stripped
\* of blanks and then of quotes, under the key of the intent.
ExtractEntities(intent, match, s) ==
  LET group == IF match.g = <<>> THEN <<>>
               ELSE SubSeq(s, match.g[1], match.g[2])
      value == StrV(StripChars(StripChars(group, {" "}), {"'", "\""}))
  IN CASE intent \in {"read_file", "extract_pdf"} ->
            IF group # <<>> THEN Dict1(S_path, value) ELSE EmptyDict
       [] intent = "list_files" ->
            IF group # <<>> THEN Dict1(S_path, value)
            ELSE Dict1(S_path, StrV(<<".">>))
       [] intent = "fill_form" ->
            IF group # <<>> THEN Dict1(<<"f", "o", "r", "m", "_", "p", "a", "t", "h">>, value) ELSE EmptyDict
       [] OTHER -> EmptyDict

\* _get_suggested_action: the description of the intent, "Execute action"
\* for an intent without one.
GetSuggestedAction(intent, entities) ==
  LET get(key, default) ==
        IF key \in DOMAIN entities THEN PyStr(entities[key]) ELSE default
      path == <<"<", "p", "a", "t", "h", ">">>
  IN CASE intent = "read_file" ->
            StrV(<<"R", "e", "a", "d", " ", "f", "i", "l", "e", ":", " ">> \o get(S_path, path))
       [] intent = "list_files" ->
            StrV(<<"L", "i", "s", "t", " ", "f", "i", "l", "e", "s", " ", "i", "n", ":", " ">> \o get(S_path, <<".">>))
       [] intent = "fill_form" ->
            StrV(<<"F", "i", "l", "l", " ", "f", "o", "r", "m", ":", " ">>
                   \o get(<<"f", "o", "r", "m", "_", "p", "a", "t", "h">>, path))
       [] intent = "extract_pdf" ->
            StrV(<<"E", "x", "t", "r", "a", "c", "t", " ", "t", "e", "x", "t", " ", "f", "r", "o", "m", ":", " ">>
                   \o get(S_path, path))
       [] intent = "help" ->
            StrV(<<"S", "h", "o", "w", " ", "a", "v", "a", "i", "l", "a", "b", "l", "e", " ", "c", "o", "m", "m", "a", "n", "d", "s">>)
       [] intent = "status" ->
            StrV(<<"S", "h", "o", "w", " ", "s", "y", "s", "t", "e", "m", " ", "s", "t", "a", "t", "u", "s">>)
       [] OTHER ->
            StrV(<<"E", "x", "e", "c", "u", "t", "e", " ", "a", "c", "t", "i", "o", "n">>)

\* The ParsedIntent for a text no pattern matches, without its suggestion.
UnknownWithoutSuggestion(s) ==
  [ intent |-> "unknown",
    confidence |-> [num |-> 0, den |-> 1, ulps |-> 0],
    entities |-> EmptyDict,
    raw_text |-> StrV(s),
    suggested_action |-> NoneV ]

\* The ParsedIntent for a text no pattern matches.
Unknown(s) ==
  [ intent |-> "unknown",
    confidence |-> [num |-> 0, den |-> 1, ulps |-> 0],
    entities |-> EmptyDict,
    raw_text |-> StrV(s),
    suggested_action |->
      StrV(<<"I", " ", "d", "i", "d", "n", "'", "t", " ", "u", "n", "d", "e", "r", "s", "t", "a", "n", "d", " ", "t", "h", "a", "t", ".", " ", "T", "r", "y", " ", "'", "h", "e", "l", "p", "'", " ", "f", "o", "r", " ", "a", "v", "a", "i", "l", "a", "b", "l", "e", " ", "c", "o", "m", "m", "a", "n", "d", "s", ".">>) ]

\* The loop of _parse_with_rules from rule r on, with the best match so far.
RECURSIVE BestMatch(_, _, _)
BestMatch(s, r, best) ==
  IF r > Len(IntentPatterns) THEN best
  ELSE LET rule == IntentPatterns[r]
           match == Search(rule.pattern, s)
           confidence == Confidence(match.end - match.start, Len(s))
       IN IF match # NoMatch /\ Better(confidence, best.confidence)
          THEN BestMatch(s, r + 1,
                         [ intent |-> rule.intent,
                           confidence |-> confidence,
                           entities |->
                             ExtractEntities(rule.intent, match, s) ])
          ELSE BestMatch(s, r + 1, best)

\* _parse_with_rules(s).
ParseWithRules(s) ==
  LET best == BestMatch(s, 1, [ intent |-> "none",
                                confidence |-> [num |-> 0, den |-> 1,
                                                ulps |-> 0],
                                entities |-> EmptyDict ])
  IN IF best.intent # "none"
     THEN [ intent |-> best.intent,
            confidence |-> best.confidence,
            entities |-> best.entities,
            raw_text |-> StrV(s),
            suggested_action |->
              GetSuggestedAction(best.intent, best.entities) ]
     ELSE Unknown(s)

\* The texts of at most n of the words, one blank between two words.
RECURSIVE Commands(_, _)
Commands(words, n) ==
  IF n <= 1 THEN words
  ELSE Commands(words, n - 1)
         \cup { t \o << " " >> \o w : t \in Commands(words, n - 1), w \in words }

\* What a call of the LLM client can come to: the call raises (no package,
\* no network, an API error), the reply is not JSON, or it is a JSON object
\* with these fields.
LlmReplies ==
  { [kind |-> "raise"],
    [kind |-> "malformed"],
    [kind |-> "object",
     fields |-> [ intent |-> "read_file",
                  confidence |-> [num |-> 1, den |-> 2, ulps |-> 0],
                  entities |-> Dict1(S_path, StrV(<< "a" >>)),
                  suggested_action |-> StrV(<< "a" >>) ]],
    [kind |-> "object",
     fields |-> [ intent |-> "help",
                  confidence |-> [num |-> 3, den |-> 2, ulps |-> 0] ]],
    [kind |-> "object",
     fields |-> [ intent |-> "status",
                  confidence |-> [num |-> 0 - 1, den |-> 2, ulps |-> 0] ]],
    [kind |-> "object",
     fields |-> [ intent |-> "dance",
                  confidence |-> [num |-> 1, den |-> 2, ulps |-> 0] ]],
    [kind |-> "object",
     fields |-> [ confidence |-> [num |-> 1, den |-> 2, ulps |-> 0] ]],
    [kind |-> "object", fields |-> [ intent |-> "status" ]],
    [kind |-> "object",
     fields |-> [ intent |-> "read_file",
                  confidence |-> StrV(<< "h", "i", "g", "h" >>) ]],
    [kind |-> "object",
     fields |-> [ intent |-> "fetch_url",
                  confidence |-> [num |-> 1, den |-> 2, ulps |-> 0] ]] }

\* _parse_with_llm raises: the client call or json.loads raises,
\* result["intent"] is missing or no value of IntentType, or
\* result["confidence"] is missing.
LlmRaises(reply) ==
  \/ reply.kind # "object"
  \/ "intent" \notin DOMAIN reply.fields
  \/ reply.fields.intent \notin IntentTypeValues
  \/ "confidence" \notin DOMAIN reply.fields

\* The ParsedIntent _parse_with_anthropic and _parse_with_openai build from
\* the reply.
ParseWithLlm(s, reply) ==
  [ intent |-> reply.fields.intent,
    confidence |-> reply.fields.confidence,
    entities |-> IF "entities" \in DOMAIN reply.fields
                 THEN reply.fields.entities ELSE EmptyDict,
    raw_text |-> StrV(s),
    suggested_action |-> IF "suggested_action" \in DOMAIN reply.fields
                         THEN reply.fields.suggested_action ELSE NoneV ]

\* parse lets the exception of the LLM path out.
OnLlmFailurePropagates(s) == [pc |-> "raised", intent |-> NoneV]

\* parse's except clause: a warning, then the rule-based parse of the text.
OnLlmFailure(s) == [pc |-> "parsed", intent |-> ParseWithRules(s)]

\* ------------------------------------------------------------------- state

VARIABLES
  steps,         \* self.steps
  context,       \* self.context
  results,       \* self.results
  pc,            \* "build", or where run stands: "step", "attempt", "return", "done",
                 \* or "raised" when an error left run
  idx,           \* position of run's for loop in self.steps
  attempts,      \* run's local attempts
  step_results,  \* run's local step_results
  failed,        \* run's local failed
  failed_step,   \* run's local failed_step
  now,           \* the wall clock, in seconds
  started_at,    \* run's local started_at
  step_start,    \* run's local step_start
  dispatched,    \* every call of _execute_step in this run: the step, its resolved
                 \* params, whether it raised, what it returned or raised
  report,        \* what run returned
  value,         \* the argument of a direct _resolve_value call
  resolved,      \* what that call returned
  run_count,       \* how often run was called on the instance after its first run
  previous_report, \* what the run before the last returned
  workflow_name,        \* self.name of the AutomationWorkflow
  workflow_description, \* self.description
  exported,      \* what to_json returned
  imported,      \* the workflow from_json built
  wf_steps,        \* Workflow.steps of the base workflow
  wf_context,      \* Workflow.context
  wf_started_at,   \* Workflow.started_at
  wf_completed_at, \* Workflow.completed_at
  wf_on_start,     \* Workflow._on_start
  wf_on_complete,  \* Workflow._on_complete
  wf_on_error,     \* Workflow._on_error
  wf_pc,           \* "build", or where Workflow.run stands: "step", "attempt",
                   \* "finish", "done", or "raised" when an error left run
  wf_idx,          \* position of run's for loop in Workflow.steps
  wf_attempts,     \* run's local attempts
  wf_results,      \* run's local results
  wf_failed,       \* run's local failed
  wf_report,       \* what Workflow.run returned
  wf_calls,        \* every call of a callable of the workflow in the last run
  wf_runs,         \* how often Workflow.run was called
  use_llm,         \* NaturalLanguageProcessor.use_llm
  openai_key,      \* NaturalLanguageProcessor._openai_key
  anthropic_key,   \* NaturalLanguageProcessor._anthropic_key
  nlp_pc,          \* "idle", "parsed", or "raised" when an error left the call
  text,            \* the argument of the parse call
  parsed,          \* the ParsedIntent it returned
  llm_calls,       \* how often a language-model client was called
  llm_response,    \* what the client did on the last call
  history,         \* NaturalLanguageInterface.history
  process_calls,   \* how often process was called
  process_outcome, \* what the last process call returned or raised
  rpa_calls,       \* the calls the last process call made on self.rpa
  sched_running,   \* Scheduler._running
  sched_thread,    \* Scheduler._thread: the number of the thread, 0 for None
  sched_threads,   \* where each thread run_continuously started stands: "while",
                   \* "run_pending", "sleep" or "ended"
  stop_pc,         \* "idle", or "join" while stop waits in join
  stopped          \* the threads started before a stop that has returned

\* The variables of the base workflow, of serialization and of the
\* language processor.
baseVars == << wf_steps, wf_context, wf_started_at, wf_completed_at, wf_on_start,
               wf_on_complete, wf_on_error, wf_pc, wf_idx, wf_attempts, wf_results,
               wf_failed, wf_report, wf_calls, wf_runs >>

jsonVars == << workflow_name, workflow_description, exported, imported >>

nlpVars == << use_llm, openai_key, anthropic_key, nlp_pc, text, parsed, llm_calls,
              llm_response >>

\* The variables of the natural language interface.
interfaceVars == << history, process_calls, process_outcome, rpa_calls >>

\* The variables of the scheduler.
schedulerVars == << sched_running, sched_thread, sched_threads, stop_pc, stopped >>

otherVars == << baseVars, jsonVars, nlpVars, interfaceVars, schedulerVars >>

vars == << steps, context, results, pc, idx, attempts, step_results, failed,
           failed_step, now, started_at, step_start, dispatched, report,
           value, resolved, run_count, previous_report, otherVars >>

\* The variables of the AutomationWorkflow but the clock.
automationVars == << steps, context, results, pc, idx, attempts, step_results, failed,
                     failed_step, started_at, step_start, dispatched, report,
                     value, resolved, run_count, previous_report >>

runVars == << pc, idx, attempts, step_results, failed, failed_step, now,
              started_at, step_start, dispatched, report >>

\* AutomationWorkflow.__init__
Constructed ==
  /\ steps = <<>>
  /\ context = EmptyDict
  /\ results = EmptyDict
  /\ pc = "build"
  /\ run_count = 0
  /\ previous_report = NoneV
  /\ idx = 0
  /\ attempts = 0
  /\ step_results = <<>>
  /\ failed = FALSE
  /\ failed_step = NoneV
  /\ now = 0
  /\ started_at = 0
  /\ step_start = 0
  /\ dispatched = <<>>
  /\ report = NoneV

\* ----------------------------------------------------------------- actions

\* AutomationWorkflow.add_step: the caller appends a step of `choices`
\* under the next free name.
AddStep(choices) ==
  /\ pc = "build"
  /\ Len(steps) < MaxSteps
  /\ \E s \in choices :
       steps' = Append(steps, [s EXCEPT !.name = StepNames[Len(steps) + 1]])
  /\ UNCHANGED << context, results, runVars, value, resolved, otherVars, run_count, previous_report >>

\* run, lines 654-662: the initial context is merged, the results cleared.
Run(initials) ==
  /\ pc = "build"
  /\ \E initial_context \in initials :
       context' = [k \in DOMAIN context \cup DOMAIN initial_context |->
                     IF k \in DOMAIN initial_context THEN initial_context[k] ELSE context[k]]
  /\ results' = EmptyDict
  /\ started_at' = now
  /\ step_results' = <<>>
  /\ failed' = FALSE
  /\ failed_step' = NoneV
  /\ dispatched' = <<>>
  /\ report' = NoneV
  /\ idx' = 1
  /\ pc' = "step"
  /\ UNCHANGED << steps, attempts, now, step_start, value, resolved, otherVars, run_count, previous_report >>

\* run(), lines 645-671, called again once run has returned: nothing is
\* merged into self.context, which keeps what the run before saved;
\* self.results is cleared in place, and the report of the run before holds
\* that same dict under "results", so previous_report keeps the other entries.
RunAgain ==
  /\ pc = "done"
  /\ run_count + 1 < MaxRuns
  /\ run_count' = run_count + 1
  /\ previous_report' = [k \in DOMAIN report.v \ {"results"} |-> report.v[k]]
  /\ results' = EmptyDict
  /\ started_at' = now
  /\ step_results' = <<>>
  /\ failed' = FALSE
  /\ failed_step' = NoneV
  /\ dispatched' = <<>>
  /\ report' = NoneV
  /\ idx' = 1
  /\ pc' = "step"
  /\ UNCHANGED << steps, context, attempts, now, step_start, value, resolved, otherVars >>

\* An executor that never leaves the for loop early.
AfterWhileNoBreak(isFailed, step) == pc' = "step" /\ idx' = idx + 1

\* run, lines 735-736, after the while loop of step idx: break or next step.
AfterWhile(isFailed, step) ==
  IF isFailed /\ step.on_error = "fail"
  THEN pc' = "return" /\ idx' = idx
  ELSE pc' = "step" /\ idx' = idx + 1

\* run, lines 668-679: the condition is false, the step is skipped.
ConditionSkip ==
  /\ pc = "step"
  /\ idx <= Len(steps)
  /\ LET step == steps[idx] IN
       /\ HasCondition(step)
       /\ EvalCondition(step.condition, context) = "false"
       /\ step_results' = Append(step_results,
            [name |-> step.name, status |-> "skipped", reason |-> "condition not met"])
  /\ step_start' = now
  /\ idx' = idx + 1
  /\ UNCHANGED << steps, context, results, pc, attempts, failed, failed_step, now,
                  started_at, dispatched, report, value, resolved, otherVars,
                  run_count, previous_report >>

\* run, lines 668-686: no condition, a true one, or one whose evaluation
\* raised (the except clause only logs): the retry loop is entered.
ConditionPass ==
  /\ pc = "step"
  /\ idx <= Len(steps)
  /\ LET step == steps[idx] IN
       HasCondition(step) => EvalCondition(step.condition, context) \in {"true", "raise"}
  /\ step_start' = now
  /\ attempts' = 0
  /\ pc' = "attempt"
  /\ UNCHANGED << steps, context, results, idx, step_results, failed, failed_step, now,
                  started_at, dispatched, report, value, resolved, otherVars,
                  run_count, previous_report >>

\* run, lines 688-706: an attempt that returns.
AttemptReturns ==
  /\ pc = "attempt"
  /\ LET step == steps[idx] IN
       /\ attempts < MaxAttempts(step)
       /\ \E out \in ExecuteStep(step, context) :
            /\ out.ok
            /\ dispatched' = Append(dispatched, Dispatch(idx, out))
            /\ now' = now + out.took
            /\ IF Truthy(step.save_result_as)
               THEN /\ context' = Put(context, step.save_result_as.v, out.result)
                    /\ results' = Put(results, step.save_result_as.v, out.result)
               ELSE UNCHANGED << context, results >>
            /\ step_results' = Append(step_results,
                 [name |-> step.name, status |-> "completed",
                  duration |-> now' - step_start, result |-> Preview(out.result)])
       /\ AfterWhile(failed, step)
       /\ steps' = [steps EXCEPT ![idx].params = ParamsAfterExecute(step)]
  /\ UNCHANGED << attempts, failed, failed_step, started_at, step_start,
                  report, value, resolved, otherVars, run_count, previous_report >>

\* run, lines 708-733: an attempt that raises; a retry after the delay, or
\* the step's record once the attempts are used up.  The sleep of line 716
\* stands in the except clause: when it raises, the error leaves run.
AttemptRaises ==
  /\ pc = "attempt"
  /\ LET step == steps[idx] IN
       /\ attempts < MaxAttempts(step)
       /\ \E out \in ExecuteStep(step, context) :
            /\ ~out.ok
            /\ dispatched' = Append(dispatched, Dispatch(idx, out))
            /\ attempts' = attempts + 1
            /\ IF attempts' < MaxAttempts(step)
               THEN IF SleepRaises(step.retry_delay)
                    THEN /\ pc' = "raised"
                         /\ now' = now + out.took
                         /\ UNCHANGED << idx, step_results, failed, failed_step >>
                    ELSE /\ now' = now + out.took + step.retry_delay
                         /\ UNCHANGED << pc, idx, step_results, failed, failed_step >>
               ELSE /\ now' = now + out.took
                    /\ step_results' = Append(step_results, OnExhausted(step, out.error).record)
                    /\ IF OnExhausted(step, out.error).fatal
                       THEN failed' = TRUE /\ failed_step' = StrV(step.name)
                       ELSE UNCHANGED << failed, failed_step >>
                    /\ AfterWhile(failed', step)
       /\ steps' = [steps EXCEPT ![idx].params = ParamsAfterExecute(step)]
  /\ UNCHANGED << context, results, started_at, step_start, report, value, resolved,
                  otherVars, run_count, previous_report >>

\* run, line 688 with retry_count < 0: max_attempts is not positive, the
\* while loop runs no attempt and appends no record.
NoAttempt ==
  /\ pc = "attempt"
  /\ LET step == steps[idx] IN
       /\ attempts >= MaxAttempts(step)
       /\ AfterWhile(failed, step)
  /\ UNCHANGED << steps, context, results, attempts, step_results, failed, failed_step,
                  now, started_at, step_start, dispatched, report, value, resolved, otherVars,
                  run_count, previous_report >>

\* run, lines 738-753: the loop is over (exhausted or broken), the report is built.
Return ==
  /\ \/ pc = "return"
     \/ pc = "step" /\ idx > Len(steps)
  /\ report' = DictV(
       [ status |-> IF failed THEN "failed" ELSE "completed",
         duration |-> now - started_at,
         steps |-> step_results,
         results |-> results,
         failed_step |-> failed_step ])
  /\ pc' = "done"
  /\ UNCHANGED << steps, context, results, idx, attempts, step_results, failed,
                  failed_step, now, started_at, step_start, dispatched, value, resolved, otherVars,
                  run_count, previous_report >>

RunStep ==
  \/ ConditionSkip
  \/ ConditionPass
  \/ AttemptReturns
  \/ AttemptRaises
  \/ NoAttempt
  \/ Return

\* ------------------------------------------------- base workflow actions

\* Workflow.__init__
WorkflowConstructed ==
  /\ wf_steps = <<>>
  /\ wf_context = EmptyDict
  /\ wf_started_at = NoneV
  /\ wf_completed_at = NoneV
  /\ wf_on_start = NoneV
  /\ wf_on_complete = NoneV
  /\ wf_on_error = NoneV
  /\ wf_pc = "build"
  /\ wf_idx = 0
  /\ wf_attempts = 0
  /\ wf_results = EmptyDict
  /\ wf_failed = FALSE
  /\ wf_report = NoneV
  /\ wf_calls = <<>>
  /\ wf_runs = 0

\* Workflow.add_step: the caller appends a step of `choices`, under the
\* name the choice carries or else under the next free name.
WfAddStep(choices) ==
  /\ wf_pc = "build"
  /\ wf_runs = 0
  /\ Len(wf_steps) < MaxWorkflowSteps
  /\ \E s \in choices :
       wf_steps' = Append(wf_steps,
         [s EXCEPT !.name = IF s.name = "" THEN StepNames[Len(wf_steps) + 1] ELSE s.name])
  /\ UNCHANGED << wf_context, wf_started_at, wf_completed_at, wf_on_start, wf_on_complete,
                  wf_on_error, wf_pc, wf_idx, wf_attempts, wf_results, wf_failed, wf_report,
                  wf_calls, wf_runs, now, automationVars, jsonVars, nlpVars, interfaceVars,
                  schedulerVars >>

\* Workflow.on_start, on_complete and on_error: a callback is registered.
WfOnStart(callbacks) ==
  /\ wf_pc = "build"
  /\ wf_runs = 0
  /\ \E callback \in callbacks : wf_on_start' = callback
  /\ UNCHANGED << wf_steps, wf_context, wf_started_at, wf_completed_at, wf_on_complete,
                  wf_on_error, wf_pc, wf_idx, wf_attempts, wf_results, wf_failed, wf_report,
                  wf_calls, wf_runs, now, automationVars, jsonVars, nlpVars, interfaceVars,
                  schedulerVars >>

WfOnComplete(callbacks) ==
  /\ wf_pc = "build"
  /\ wf_runs = 0
  /\ \E callback \in callbacks : wf_on_complete' = callback
  /\ UNCHANGED << wf_steps, wf_context, wf_started_at, wf_completed_at, wf_on_start,
                  wf_on_error, wf_pc, wf_idx, wf_attempts, wf_results, wf_failed, wf_report,
                  wf_calls, wf_runs, now, automationVars, jsonVars, nlpVars, interfaceVars,
                  schedulerVars >>

WfOnError(callbacks) ==
  /\ wf_pc = "build"
  /\ wf_runs = 0
  /\ \E callback \in callbacks : wf_on_error' = callback
  /\ UNCHANGED << wf_steps, wf_context, wf_started_at, wf_completed_at, wf_on_start,
                  wf_on_complete, wf_pc, wf_idx, wf_attempts, wf_results, wf_failed, wf_report,
                  wf_calls, wf_runs, now, automationVars, jsonVars, nlpVars, interfaceVars,
                  schedulerVars >>

\* The entry of the call log for one call of a callable of the workflow.
Called(what, i, out) == [what |-> what, step |-> i, raised |-> ~out.ok]

\* run, lines 139-148: the initial context is merged, the start time taken
\* and the start callback called, outside any try block.
WfRun(initials) ==
  /\ wf_pc = "build"
  /\ wf_runs < MaxRuns
  /\ wf_runs' = wf_runs + 1
  /\ \E initial_context \in initials :
       wf_context' = [k \in DOMAIN wf_context \cup DOMAIN initial_context |->
                        IF k \in DOMAIN initial_context THEN initial_context[k]
                        ELSE wf_context[k]]
  /\ wf_started_at' = DateTime(now)
  /\ wf_report' = NoneV
  /\ IF Truthy(wf_on_start)
     THEN \E out \in Call(wf_on_start) :
            /\ wf_calls' = << Called("on_start", 0, out) >>
            /\ IF out.ok
               THEN wf_pc' = "step" /\ wf_idx' = 1 /\ wf_results' = EmptyDict
                    /\ wf_failed' = FALSE
               ELSE wf_pc' = "raised" /\ UNCHANGED << wf_idx, wf_results, wf_failed >>
     ELSE /\ wf_calls' = <<>>
          /\ wf_pc' = "step" /\ wf_idx' = 1 /\ wf_results' = EmptyDict /\ wf_failed' = FALSE
  /\ UNCHANGED << wf_steps, wf_completed_at, wf_on_start, wf_on_complete, wf_on_error,
                  wf_attempts, now, automationVars, jsonVars, nlpVars, interfaceVars,
                  schedulerVars >>

\* run, lines 150-155 and 157-163: the condition of step wf_idx is called,
\* outside any try block; the step is skipped, or marked RUNNING and the
\* retry loop entered.
WfCondition ==
  /\ wf_pc = "step"
  /\ wf_idx <= Len(wf_steps)
  /\ LET step == wf_steps[wf_idx] IN
       IF Truthy(step.condition)
       THEN \E out \in Call(step.condition) :
              /\ wf_calls' = Append(wf_calls, Called("condition", wf_idx, out))
              /\ IF ~out.ok
                 THEN /\ wf_pc' = "raised"
                      /\ UNCHANGED << wf_steps, wf_idx, wf_attempts >>
                 ELSE IF ~Truthy(out.result)
                 THEN /\ wf_steps' = [wf_steps EXCEPT ![wf_idx].status = "skipped"]
                      /\ wf_idx' = wf_idx + 1
                      /\ UNCHANGED << wf_pc, wf_attempts >>
                 ELSE /\ wf_steps' = [wf_steps EXCEPT ![wf_idx].status = "running",
                                                      ![wf_idx].started_at = DateTime(now)]
                      /\ wf_attempts' = 0
                      /\ wf_pc' = "attempt"
                      /\ UNCHANGED wf_idx
       ELSE /\ wf_steps' = [wf_steps EXCEPT ![wf_idx].status = "running",
                                            ![wf_idx].started_at = DateTime(now)]
            /\ wf_attempts' = 0
            /\ wf_pc' = "attempt"
            /\ UNCHANGED << wf_idx, wf_calls >>
  /\ UNCHANGED << wf_context, wf_started_at, wf_completed_at, wf_on_start, wf_on_complete,
                  wf_on_error, wf_results, wf_failed, wf_report, wf_runs, now,
                  automationVars, jsonVars, nlpVars, interfaceVars, schedulerVars >>

\* run, lines 165-211: one attempt of step wf_idx.  A returning action
\* completes the step; a raising one is retried after the delay or, on the
\* last attempt, fails the step, calls the error handlers (what they raise
\* is swallowed) and ends the loop.
WfAttempt ==
  /\ wf_pc = "attempt"
  /\ LET step == wf_steps[wf_idx] IN
       /\ wf_attempts < step.retry_count + 1
       /\ \E out \in Call(step.action) :
            IF out.ok
            THEN /\ wf_steps' = [wf_steps EXCEPT ![wf_idx].result = out.result,
                                                 ![wf_idx].status = "completed",
                                                 ![wf_idx].completed_at = DateTime(now)]
                 /\ wf_results' = Put(wf_results, step.name, out.result)
                 /\ wf_context' = Put(wf_context, ResultKey(step.name), out.result)
                 /\ wf_calls' = Append(wf_calls, Called("action", wf_idx, out))
                 /\ wf_pc' = "step"
                 /\ wf_idx' = wf_idx + 1
                 /\ UNCHANGED << wf_attempts, wf_failed, now >>
            ELSE /\ wf_attempts' = wf_attempts + 1
                 /\ UNCHANGED << wf_results, wf_context, wf_idx >>
                 /\ IF wf_attempts' < step.retry_count + 1
                    THEN /\ wf_steps' = [wf_steps EXCEPT ![wf_idx].error = ExcV(out.error)]
                         /\ wf_calls' = Append(wf_calls, Called("action", wf_idx, out))
                         /\ UNCHANGED wf_failed
                         /\ IF SleepRaises(step.retry_delay)
                            THEN wf_pc' = "raised" /\ UNCHANGED now
                            ELSE now' = now + step.retry_delay /\ UNCHANGED wf_pc
                    ELSE /\ wf_steps' = [wf_steps EXCEPT ![wf_idx].error = ExcV(out.error),
                                                         ![wf_idx].status = "failed",
                                                         ![wf_idx].completed_at = DateTime(now)]
                         /\ \E h1 \in (IF Truthy(step.on_error) THEN Call(step.on_error)
                                       ELSE {Returned(NoneV, 0)}),
                               h2 \in (IF Truthy(wf_on_error) THEN Call(wf_on_error)
                                       ELSE {Returned(NoneV, 0)}) :
                              wf_calls' = wf_calls
                                \o << Called("action", wf_idx, out) >>
                                \o (IF Truthy(step.on_error)
                                    THEN << Called("step_on_error", wf_idx, h1) >> ELSE <<>>)
                                \o (IF Truthy(wf_on_error)
                                    THEN << Called("on_error", wf_idx, h2) >> ELSE <<>>)
                         /\ wf_failed' = TRUE
                         /\ wf_pc' = "finish"
                         /\ UNCHANGED now
  /\ UNCHANGED << wf_started_at, wf_completed_at, wf_on_start, wf_on_complete, wf_on_error,
                  wf_report, wf_runs, automationVars, jsonVars, nlpVars, interfaceVars,
                  schedulerVars >>

\* run, line 165 with retry_count < 0: the while loop runs no attempt and
\* the step stays RUNNING.
WfNoAttempt ==
  /\ wf_pc = "attempt"
  /\ wf_attempts >= wf_steps[wf_idx].retry_count + 1
  /\ wf_pc' = "step"
  /\ wf_idx' = wf_idx + 1
  /\ UNCHANGED << wf_steps, wf_context, wf_started_at, wf_completed_at, wf_on_start,
                  wf_on_complete, wf_on_error, wf_attempts, wf_results, wf_failed, wf_report,
                  wf_calls, wf_runs, now, automationVars, jsonVars, nlpVars, interfaceVars,
                  schedulerVars >>

\* A return that calls the completion callback whether or not a step failed.
WfReturnAlwaysCompletes ==
  /\ \/ wf_pc = "finish"
     \/ wf_pc = "step" /\ wf_idx > Len(wf_steps)
  /\ wf_completed_at' = DateTime(now)
  /\ \E out \in (IF Truthy(wf_on_complete) THEN Call(wf_on_complete)
                 ELSE {Returned(NoneV, 0)}) :
       /\ wf_calls' = IF Truthy(wf_on_complete)
                      THEN Append(wf_calls, Called("on_complete", 0, out)) ELSE wf_calls
       /\ IF out.ok
          THEN /\ wf_report' = DictV(
                    [ status |-> IF wf_failed THEN "FAILED" ELSE "COMPLETED",
                      duration |-> now - wf_started_at.v,
                      steps |-> StepEntries(wf_steps),
                      results |-> wf_results ])
               /\ wf_pc' = "done"
          ELSE /\ wf_pc' = "raised"
               /\ UNCHANGED wf_report
  /\ UNCHANGED << wf_steps, wf_context, wf_started_at, wf_on_start, wf_on_complete,
                  wf_on_error, wf_idx, wf_attempts, wf_results, wf_failed, wf_runs, now,
                  automationVars, jsonVars, nlpVars, interfaceVars, schedulerVars >>

\* run, lines 213-236: the end time is taken, the completion callback called
\* (outside any try block) when no step failed, and the report built.
WfReturn ==
  /\ \/ wf_pc = "finish"
     \/ wf_pc = "step" /\ wf_idx > Len(wf_steps)
  /\ wf_completed_at' = DateTime(now)
  /\ \E out \in (IF ~wf_failed /\ Truthy(wf_on_complete) THEN Call(wf_on_complete)
                 ELSE {Returned(NoneV, 0)}) :
       /\ wf_calls' = IF ~wf_failed /\ Truthy(wf_on_complete)
                      THEN Append(wf_calls, Called("on_complete", 0, out)) ELSE wf_calls
       /\ IF out.ok
          THEN /\ wf_report' = DictV(
                    [ status |-> IF wf_failed THEN "FAILED" ELSE "COMPLETED",
                      duration |-> now - wf_started_at.v,
                      steps |-> StepEntries(wf_steps),
                      results |-> wf_results ])
               /\ wf_pc' = "done"
          ELSE /\ wf_pc' = "raised"
               /\ UNCHANGED wf_report
  /\ UNCHANGED << wf_steps, wf_context, wf_started_at, wf_on_start, wf_on_complete,
                  wf_on_error, wf_idx, wf_attempts, wf_results, wf_failed, wf_runs, now,
                  automationVars, jsonVars, nlpVars, interfaceVars, schedulerVars >>

\* Workflow.reset, lines 246-257.
WfReset ==
  /\ wf_pc \in {"build", "done", "raised"}
  /\ wf_steps' = [i \in 1..Len(wf_steps) |-> ResetStep(wf_steps[i])]
  /\ wf_started_at' = NoneV
  /\ wf_completed_at' = NoneV
  /\ wf_context' = EmptyDict
  /\ wf_pc' = "build"
  /\ UNCHANGED << wf_on_start, wf_on_complete, wf_on_error, wf_idx, wf_attempts, wf_results,
                  wf_failed, wf_report, wf_calls, wf_runs, now, automationVars, jsonVars,
                  nlpVars, interfaceVars, schedulerVars >>

WfRunStep ==
  \/ WfCondition
  \/ WfAttempt
  \/ WfNoAttempt
  \/ WfReturn

\* The steps callers append: an action that returns, one that raises and
\* has an error handler of its own, a retried action that may do either, a
\* step whose condition is false and one whose condition raises, a step
\* with a negative retry count, and a step under the name A whatever its
\* position.
WorkflowSteps ==
  { WorkflowStep("", CallableV("returns")),
    [WorkflowStep("", CallableV("raises")) EXCEPT !.on_error = CallableV("raises")],
    [WorkflowStep("", CallableV("flaky")) EXCEPT !.retry_count = MaxRetry],
    [WorkflowStep("", CallableV("returns")) EXCEPT !.condition = CallableV("false")],
    [WorkflowStep("", CallableV("returns")) EXCEPT !.condition = CallableV("raises")],
    [WorkflowStep("", CallableV("returns")) EXCEPT !.retry_count = -1],
    WorkflowStep("A", CallableV("returns")) }

\* ------------------------------------ the language processor (core/nlp.py)

\* NaturalLanguageProcessor.__init__ with use_llm and the two keys of the
\* environment.
ProcessorConstructed(use, openai, anthropic) ==
  /\ use_llm = use
  /\ openai_key = openai
  /\ anthropic_key = anthropic
  /\ nlp_pc = "idle"
  /\ text = NoneV
  /\ parsed = NoneV
  /\ llm_calls = 0
  /\ llm_response = NoneV

\* _parse_with_rules(t) called on a text as it is.
ParseWithRulesCalled(texts) ==
  /\ nlp_pc = "idle"
  /\ \E t \in texts :
       /\ text' = StrV(t)
       /\ parsed' = ParseWithRules(t)
  /\ nlp_pc' = "parsed"
  /\ UNCHANGED << use_llm, openai_key, anthropic_key, llm_calls, llm_response >>
  /\ UNCHANGED << automationVars, now, baseVars, jsonVars, interfaceVars, schedulerVars >>

\* parse(t): the text is stripped; with use_llm and a key the LLM is asked
\* (Anthropic when its key is set, else OpenAI) and its ParsedIntent
\* returned; when that raises, and without a key, the rules parse the text.
Parse(texts) ==
  /\ nlp_pc = "idle"
  /\ \E t \in texts :
       LET s == StripChars(t, {" "})
           failure == OnLlmFailure(s)
       IN /\ text' = StrV(t)
          /\ IF use_llm /\ (Truthy(openai_key) \/ Truthy(anthropic_key))
             THEN \E reply \in LlmReplies :
                  /\ llm_calls' = llm_calls + 1
                  /\ llm_response' =
                       [ client |-> IF Truthy(anthropic_key)
                                    THEN "anthropic" ELSE "openai",
                         reply |-> reply ]
                  /\ IF LlmRaises(reply)
                     THEN nlp_pc' = failure.pc /\ parsed' = failure.intent
                     ELSE nlp_pc' = "parsed" /\ parsed' = ParseWithLlm(s, reply)
             ELSE /\ nlp_pc' = "parsed"
                  /\ parsed' = ParseWithRules(s)
                  /\ UNCHANGED << llm_calls, llm_response >>
  /\ UNCHANGED << use_llm, openai_key, anthropic_key >>
  /\ UNCHANGED << automationVars, now, baseVars, jsonVars, interfaceVars, schedulerVars >>

\* ---------------------------- the natural language interface (core/nlp.py)

\* NaturalLanguageInterface.__init__
InterfaceConstructed ==
  /\ history = <<>>
  /\ process_calls = 0
  /\ process_outcome = NoneV
  /\ rpa_calls = <<>>

\* f"{confidence:.2f}" (line 448) formats a number and raises for a str or
\* None.
FormatsAsFloat(confidence) == "num" \in DOMAIN confidence

\* NaturalLanguageInterface._execute_intent(parsed): what it can do, each
\* with the calls made on self.rpa.  A call on self.rpa returns or raises;
\* the texts returned are kept up to their first words.
ExecuteIntent(p) ==
  LET get(key) == IF key \in DOMAIN p.entities THEN p.entities[key] ELSE NoneV
      getOr(key, default) == IF key \in DOMAIN p.entities THEN p.entities[key] ELSE default
      say(result) == { [calls |-> <<>>, ok |-> TRUE, result |-> result, error |-> ""] }
      raises(error) == { [calls |-> <<>>, ok |-> FALSE, result |-> NoneV, error |-> error] }
      call(name, args, result) ==
        { [calls |-> << [name |-> name, args |-> args] >>, ok |-> TRUE,
           result |-> result, error |-> ""],
          [calls |-> << [name |-> name, args |-> args] >>, ok |-> FALSE,
           result |-> NoneV, error |-> "IOError"] }
      guidance == StrV(<<"P", "l", "e", "a", "s", "e", " ", "s", "p", "e", "c", "i", "f", "y">>)
      path == get(S_path)
      source == get(<<"s", "o", "u", "r", "c", "e">>)
      dest == get(<<"d", "e", "s", "t", "i", "n", "a", "t", "i", "o", "n">>)
      url == get(S_url)
      content == getOr(<<"c", "o", "n", "t", "e", "n", "t">>, StrV(<<>>))
      output_path == getOr(<<"o", "u", "t", "p", "u", "t", "_", "p", "a", "t", "h">>,
                           StrV(<<"d", "o", "c">>))
  IN
  CASE p.intent = "read_file" ->
         IF ~Truthy(path) THEN say(guidance)
         ELSE call("files.read_text", <<path>>, FileText)
    [] p.intent = "write_file" ->
         IF ~Truthy(path) THEN say(guidance)
         ELSE call("files.write_text", <<path, content>>, path)
    [] p.intent = "copy_file" ->
         IF ~Truthy(source) \/ ~Truthy(dest) THEN say(guidance)
         ELSE call("files.copy", <<source, dest>>, dest)
    [] p.intent = "move_file" ->
         IF ~Truthy(source) \/ ~Truthy(dest) THEN say(guidance)
         ELSE call("files.move", <<source, dest>>, dest)
    [] p.intent = "delete_file" ->
         IF ~Truthy(path) THEN say(guidance)
         ELSE call("files.delete", <<path>>, BoolV(TRUE))
    [] p.intent = "list_files" ->
         call("files.list_files", << getOr(S_path, StrV(<<".">>)) >>, FileList)
    [] p.intent = "read_spreadsheet" ->
         IF ~Truthy(path) THEN say(guidance)
         ELSE IF path.t # "str" THEN raises("AttributeError")
         ELSE IF Len(path.v) >= 4
                 /\ SubSeq(path.v, Len(path.v) - 3, Len(path.v)) = <<".", "c", "s", "v">>
              THEN call("spreadsheet.read_csv", <<path>>, FileList)
              ELSE call("spreadsheet.read_excel", <<path>>, FileList)
    [] p.intent = "create_document" ->
         call("docs.create_word",
              << output_path, getOr(<<"t", "i", "t", "l", "e">>, StrV(<<"U">>)), content >>,
              output_path)
    [] p.intent = "fill_form" ->
         IF ~Truthy(get(<<"f", "o", "r", "m", "_", "p", "a", "t", "h">>)) THEN say(guidance)
         ELSE say(StrV(<<"F", "o", "r", "m", " ", "f", "i", "l", "l", "i", "n", "g">>))
    [] p.intent = "create_pdf" ->
         call("pdf.create", << output_path, content >>, output_path)
    [] p.intent = "extract_pdf" ->
         IF ~Truthy(path) THEN say(guidance)
         ELSE call("pdf.extract_text", <<path>>, FileText)
    [] p.intent \in {"fetch_url", "scrape_page"} ->
         IF ~Truthy(url) THEN say(guidance)
         ELSE call("scraper.get", <<url>>, ApiResponse)
    [] p.intent = "help" -> say(StrV(<<"A", "U", "T", "H", "O", ".", "R", " ", "R", "P", "A">>))
    [] p.intent = "status" -> say(StrV(<<"A", "U", "T", "H", "O", ".", "R", " ", "R", "P", "A">>))
    [] p.intent = "unknown" -> say(p.suggested_action)
    [] OTHER -> say(StrV(<<"I", "n", "t", "e", "n", "t">>))

\* NaturalLanguageInterface.process(command): self.nlp.parse, the log line
\* of line 448, the history entry, and the dispatch inside try/except.
Process(commands) ==
  /\ process_calls < MaxCommands
  /\ process_calls' = process_calls + 1
  /\ \E t \in commands :
       LET s == StripChars(t, {" "})
           failure == OnLlmFailure(s)
       IN /\ text' = StrV(t)
          /\ IF use_llm /\ (Truthy(openai_key) \/ Truthy(anthropic_key))
             THEN \E reply \in LlmReplies :
                  /\ llm_calls' = llm_calls + 1
                  /\ llm_response' =
                       [ client |-> IF Truthy(anthropic_key)
                                    THEN "anthropic" ELSE "openai",
                         reply |-> reply ]
                  /\ IF LlmRaises(reply)
                     THEN nlp_pc' = failure.pc /\ parsed' = failure.intent
                     ELSE nlp_pc' = "parsed" /\ parsed' = ParseWithLlm(s, reply)
             ELSE /\ nlp_pc' = "parsed"
                  /\ parsed' = ParseWithRules(s)
                  /\ UNCHANGED << llm_calls, llm_response >>
          /\ IF nlp_pc' = "raised"
             THEN /\ process_outcome' = [raised |-> TRUE, error |-> "Exception"]
                  /\ rpa_calls' = <<>>
                  /\ UNCHANGED history
             ELSE IF ~FormatsAsFloat(parsed'.confidence)
             THEN /\ process_outcome' = [raised |-> TRUE, error |-> "ValueError"]
                  /\ rpa_calls' = <<>>
                  /\ UNCHANGED history
             ELSE /\ history' = Append(history,
                        [ command |-> StrV(t), intent |-> parsed'.intent,
                          confidence |-> parsed'.confidence ])
                  /\ \E out \in ExecuteIntent(parsed') :
                       /\ rpa_calls' = out.calls
                       /\ process_outcome' =
                            [ raised |-> FALSE,
                              value |->
                                IF out.ok
                                THEN [ success |-> TRUE, intent |-> parsed'.intent,
                                       action |-> parsed'.suggested_action,
                                       result |-> out.result ]
                                ELSE [ success |-> FALSE, intent |-> parsed'.intent,
                                       action |-> parsed'.suggested_action,
                                       error |-> out.error ] ]
  /\ UNCHANGED << use_llm, openai_key, anthropic_key >>
  /\ UNCHANGED << automationVars, now, baseVars, jsonVars, schedulerVars >>

\* ------------------------------------------- the scheduler (core/scheduler.py)

\* Scheduler.__init__
SchedulerConstructed ==
  /\ sched_running = FALSE
  /\ sched_thread = 0
  /\ sched_threads = <<>>
  /\ stop_pc = "idle"
  /\ stopped = {}

\* Scheduler.run_continuously(interval): sets the flag, then creates and
\* starts a thread that stands before its while test.
RunContinuously ==
  /\ stop_pc = "idle"
  /\ Len(sched_threads) < MaxThreads
  /\ sched_running' = TRUE
  /\ sched_threads' = Append(sched_threads, "while")
  /\ sched_thread' = Len(sched_threads) + 1
  /\ UNCHANGED << stop_pc, stopped >>
  /\ UNCHANGED << automationVars, now, baseVars, jsonVars, nlpVars, interfaceVars >>

\* One step of a background thread, lines 78-80: the test of self._running,
\* schedule.run_pending(), or time.sleep(interval).
ThreadStep ==
  /\ \E t \in 1..Len(sched_threads) :
       /\ sched_threads[t] # "ended"
       /\ sched_threads' = [sched_threads EXCEPT ![t] =
            CASE sched_threads[t] = "while" ->
                   IF sched_running THEN "run_pending" ELSE "ended"
              [] sched_threads[t] = "run_pending" -> "sleep"
              [] sched_threads[t] = "sleep" -> "while"]
  /\ UNCHANGED << sched_running, sched_thread, stop_pc, stopped >>
  /\ UNCHANGED << automationVars, now, baseVars, jsonVars, nlpVars, interfaceVars >>

\* Scheduler.stop(), lines 88-89: clears the flag; without a thread it
\* returns, with one it waits in join.
StopCalled ==
  /\ stop_pc = "idle"
  /\ sched_running' = FALSE
  /\ IF sched_thread = 0
     THEN stopped' = 1..Len(sched_threads) /\ UNCHANGED stop_pc
     ELSE stop_pc' = "join" /\ UNCHANGED stopped
  /\ UNCHANGED << sched_thread, sched_threads >>
  /\ UNCHANGED << automationVars, now, baseVars, jsonVars, nlpVars, interfaceVars >>

\* Scheduler.stop(), lines 90-92: join(timeout=5) returns once the thread
\* has ended or the five seconds are over, whichever comes first; stop
\* forgets the thread and returns.
StopReturns ==
  /\ stop_pc = "join"
  /\ \E timed_out \in BOOLEAN :
       timed_out \/ sched_threads[sched_thread] = "ended"
  /\ sched_thread' = 0
  /\ stop_pc' = "idle"
  /\ stopped' = 1..Len(sched_threads)
  /\ UNCHANGED << sched_running, sched_threads >>
  /\ UNCHANGED << automationVars, now, baseVars, jsonVars, nlpVars, interfaceVars >>

\* ------------------------------------------------- serialization actions

\* AutomationWorkflow.to_json
ToJson ==
  /\ pc = "build"
  /\ IF ToJsonRaises(steps)
     THEN pc' = "raised" /\ UNCHANGED exported
     ELSE /\ exported' = [ name |-> JsonDump(workflow_name),
                           description |-> JsonDump(workflow_description),
                           steps |-> [i \in 1..Len(steps) |-> StepToJson(steps[i])] ]
          /\ pc' = "exported"
  /\ UNCHANGED << steps, context, results, idx, attempts, step_results, failed, failed_step,
                  now, started_at, step_start, dispatched, report, value, resolved,
                  workflow_name, workflow_description, imported, baseVars, nlpVars,
                  run_count, previous_report, interfaceVars, schedulerVars >>

\* AutomationWorkflow.from_json on what to_json returned.
FromJson ==
  /\ pc = "exported"
  /\ IF \E i \in 1..Len(exported.steps) : exported.steps[i].type.v \notin StepTypeValues
     THEN pc' = "raised" /\ UNCHANGED imported
     ELSE /\ imported' = [ name |-> JsonLoad(exported.name),
                           description |-> JsonLoad(exported.description),
                           steps |-> [i \in 1..Len(exported.steps) |->
                                        StepFromJson(exported.steps[i])] ]
          /\ pc' = "imported"
  /\ UNCHANGED << steps, context, results, idx, attempts, step_results, failed, failed_step,
                  now, started_at, step_start, dispatched, report, value, resolved,
                  workflow_name, workflow_description, exported, baseVars, nlpVars,
                  run_count, previous_report, interfaceVars, schedulerVars >>

\* ------------------------------------------- the executor under error policies

BaseStep == AutomationStep("", "read_file", Dict1(S_path, StrV(S_a)))

\* The steps callers append: a 'fail' step without retries, with retries and
\* with a negative retry count, a 'skip' step with retries, a 'retry' step
\* without, and steps with a condition that is false, true, or raises (x is
\* never bound); one of them names a later step in depends_on, one has a
\* negative retry_delay.
PolicySteps ==
  { [BaseStep EXCEPT !.retry_count = n] : n \in {-1, 0, MaxRetry} }
  \cup { [BaseStep EXCEPT !.retry_count = MaxRetry, !.retry_delay = -1] }
  \cup { [BaseStep EXCEPT !.on_error = "skip", !.retry_count = MaxRetry] }
  \cup { [BaseStep EXCEPT !.on_error = "retry"] }
  \cup { [BaseStep EXCEPT !.condition = CondV(c)] : c \in {"False", "context['x']"} }
  \cup { [BaseStep EXCEPT !.condition = CondV("True"), !.depends_on = <<"C">>] }

\* The other objects as their constructors leave them: a base Workflow,
\* nothing exported, a NaturalLanguageProcessor without credentials.
OthersConstructed ==
  /\ WorkflowConstructed
  /\ exported = NoneV
  /\ imported = NoneV
  /\ ProcessorConstructed(TRUE, NoneV, NoneV)
  /\ InterfaceConstructed
  /\ SchedulerConstructed

Init ==
  /\ Constructed
  /\ workflow_name = StrV(<<"w">>)
  /\ workflow_description = StrV(<<>>)
  /\ value = NoneV
  /\ resolved = NoneV
  /\ OthersConstructed

Next ==
  \/ AddStep(PolicySteps)
  \/ Run({EmptyDict})
  \/ RunStep

Spec == Init /\ [][Next]_vars

\* ---------------------------- the executor with saved variables and templates

\* The steps callers append: steps that save a str, a list or a dict under x
\* or y, steps whose params are a lone or an embedded placeholder, a step
\* gated on x, and a step with a negative retry count.
DataSteps ==
  { [BaseStep EXCEPT !.save_result_as = StrV(S_x)],
    [AutomationStep("", "list_files", Dict1(S_path, StrV(S_a)))
       EXCEPT !.save_result_as = StrV(S_x)],
    [AutomationStep("", "api_call", Dict1(S_url, StrV(S_a)))
       EXCEPT !.save_result_as = StrV(S_y)],
    [AutomationStep("", "read_file", Dict1(S_path, StrV(Placeholder(S_x))))
       EXCEPT !.on_error = "skip", !.retry_count = MaxRetry, !.save_result_as = StrV(S_y)],
    [AutomationStep("", "log_message", Dict1(S_message, StrV(<<"p">> \o Placeholder(S_x))))
       EXCEPT !.save_result_as = StrV(S_y)],
    [AutomationStep("", "log_message", Dict1(S_message, StrV(Placeholder(S_x))))
       EXCEPT !.save_result_as = StrV(S_y)],
    [BaseStep EXCEPT !.condition = CondV("context.get('x')"), !.save_result_as = StrV(S_x)],
    [BaseStep EXCEPT !.retry_count = -1, !.save_result_as = StrV(S_x)] }

\* The keyword arguments callers give run.
DataContexts == { EmptyDict, Dict1(S_x, IntV(7)) }

NextData ==
  \/ AddStep(DataSteps)
  \/ Run(DataContexts)
  \/ RunStep

SpecData == Init /\ [][NextData]_vars

\* ------------------------------------------- the executor called once more

\* The steps callers append before running twice: a message saved under x, a
\* message gated on x, a message built from x, a custom step that is handed
\* x, a custom step whose action may raise and is retried, and a message
\* with a negative retry count.
RerunSteps ==
  { [AutomationStep("", "log_message", Dict1(S_message, StrV(<<"m">>)))
       EXCEPT !.save_result_as = StrV(S_x)],
    [AutomationStep("", "log_message", Dict1(S_message, StrV(<<"h">>)))
       EXCEPT !.condition = CondV("context.get('x')")],
    [AutomationStep("", "log_message", Dict1(S_message, StrV(Placeholder(S_x))))
       EXCEPT !.save_result_as = StrV(S_y)],
    AutomationStep("", "custom",
      Put(Dict1(S_action, CallableV("returns")), S_path, StrV(Placeholder(S_x)))),
    [AutomationStep("", "custom", Dict1(S_action, CallableV("flaky")))
       EXCEPT !.retry_count = MaxRetry, !.retry_delay = 0],
    [AutomationStep("", "log_message", Dict1(S_message, StrV(<<"n">>)))
       EXCEPT !.retry_count = -1] }

NextRerun ==
  \/ AddStep(RerunSteps)
  \/ Run({EmptyDict})
  \/ RunStep
  \/ RunAgain

SpecRerun == Init /\ [][NextRerun]_vars

\* ----------------------------------------------- _resolve_value called alone

\* The pieces templates are assembled from.
Pieces == { Placeholder(S_x), Placeholder(S_y), <<"a">>, <<"{">>, <<"}">> }

\* The texts made of at most n pieces.
RECURSIVE Texts(_)
Texts(n) ==
  IF n = 0 THEN { <<>> }
  ELSE Texts(n - 1) \cup { t \o piece : t \in Texts(n - 1), piece \in Pieces }

\* The values resolved: a str, and a list and a dict that hold one.
ResolveInputs ==
  UNION { { StrV(t), ListV(<<StrV(t), IntV(1)>>), DictV(Dict1(S_path, StrV(t))) } :
          t \in Texts(MaxParts) }

\* The contexts they are resolved against: x and y unbound or bound to a
\* str, a number, a list or a mapping.
ResolveContexts ==
  LET xs == { StrV(S_a), StrV(<<>>), IntV(7), FileList, ApiResponse, StrV(Placeholder(S_y)) }
      ys == { StrV(<<"b">>), IntV(0) }
  IN { EmptyDict }
     \cup { Dict1(S_x, vx) : vx \in xs }
     \cup { Dict1(S_y, vy) : vy \in ys }
     \cup { Put(Dict1(S_x, vx), S_y, vy) : vx \in xs, vy \in ys }

InitResolve ==
  /\ steps = <<>>
  /\ context \in ResolveContexts
  /\ results = EmptyDict
  /\ pc = "resolve"
  /\ run_count = 0
  /\ previous_report = NoneV
  /\ idx = 0
  /\ attempts = 0
  /\ step_results = <<>>
  /\ failed = FALSE
  /\ failed_step = NoneV
  /\ now = 0
  /\ started_at = 0
  /\ step_start = 0
  /\ dispatched = <<>>
  /\ report = NoneV
  /\ value \in ResolveInputs
  /\ resolved = NoneV
  /\ workflow_name = StrV(<<"w">>)
  /\ workflow_description = StrV(<<>>)
  /\ OthersConstructed

\* self._resolve_value(value)
ResolveCall ==
  /\ pc = "resolve"
  /\ resolved' = ResolveValue(value, context)
  /\ pc' = "resolved"
  /\ UNCHANGED << steps, context, results, idx, attempts, step_results, failed,
                  failed_step, now, started_at, step_start, dispatched, report, value,
                  otherVars, run_count, previous_report >>

NextResolve == ResolveCall

SpecResolve == InitResolve /\ [][NextResolve]_vars

\* ----------------------------------------------- the base workflow alone

NextBase ==
  \/ WfAddStep(WorkflowSteps)
  \/ WfOnStart({CallableV("returns")})
  \/ WfOnComplete({CallableV("returns")})
  \/ WfOnError({CallableV("raises")})
  \/ WfRun({EmptyDict, Dict1(S_x, IntV(7))})
  \/ WfRunStep
  \/ WfReset

SpecBase == Init /\ [][NextBase]_vars

\* -------------------------------------------------- export and re-import

\* Param keys of the db_query and send_email steps.
S_params == <<"p", "a", "r", "a", "m", "s">>
S_to == <<"t", "o">>

\* The steps callers append before exporting: a plain step, a custom step
\* with its action, one that also holds callables in a list, a query with a
\* tuple of arguments, a step with condition, policy, retries and save
\* target, a step with a list param, and one whose retry_delay and
\* depends_on differ from the defaults.
JsonSteps ==
  { BaseStep,
    [AutomationStep("", "custom", Dict1(S_action, CallableV("returns")))
       EXCEPT !.save_result_as = StrV(S_x)],
    AutomationStep("", "custom",
      Put(Dict1(S_action, CallableV("returns")), <<"c", "b">>,
          ListV(<<CallableV("returns")>>))),
    AutomationStep("", "db_query", Dict1(S_params, TupleV(<<IntV(7)>>))),
    [BaseStep EXCEPT !.condition = CondV("context.get('x')"), !.on_error = "skip",
                     !.retry_count = MaxRetry, !.save_result_as = StrV(S_y)],
    AutomationStep("", "send_email", Dict1(S_to, FileList)),
    [BaseStep EXCEPT !.on_error = "retry", !.retry_count = -1, !.retry_delay = -1,
                     !.depends_on = <<"C">>] }

\* AutomationWorkflow(name, description) for the names callers give.
InitJson ==
  /\ Constructed
  /\ workflow_name \in { StrV(<<"w">>), StrV(<<>>) }
  /\ workflow_description \in { StrV(<<>>), StrV(<<"d">>) }
  /\ value = NoneV
  /\ resolved = NoneV
  /\ OthersConstructed

NextJson ==
  \/ AddStep(JsonSteps)
  \/ ToJson
  \/ FromJson

SpecJson == InitJson /\ [][NextJson]_vars

\* ------------------------------------------------- the rules called alone

\* The texts given to _parse_with_rules: at most MaxWords words; the empty
\* word puts a blank at the start, at the end or twice in a row.
RuleCommands ==
  Commands({ <<>>, <<"r", "e", "a", "d">>, <<"t", "h", "e">>, <<"p", "d", "f">>,
             <<"s", "h", "o", "w">>, <<"s", "t", "a", "t", "u", "s">>,
             <<"h", "e", "l", "p">>, <<"l", "i", "s", "t">>,
             <<"f", "i", "l", "e", "s">>,
             <<"p", "o", "p", "u", "l", "a", "t", "e">>, <<"x">> },
           MaxWords)

NextRules == ParseWithRulesCalled(RuleCommands)

SpecRules == Init /\ [][NextRules]_vars

\* ------------------------------------------------ parse with and without keys

\* A processor made with either use_llm and with each key unset, empty or set.
InitParse ==
  /\ Constructed
  /\ value = NoneV
  /\ resolved = NoneV
  /\ workflow_name = StrV(<< "w" >>)
  /\ workflow_description = StrV(<<>>)
  /\ WorkflowConstructed
  /\ exported = NoneV
  /\ imported = NoneV
  /\ \E use \in BOOLEAN,
        openai \in { NoneV, StrV(<< "k" >>) },
        anthropic \in { NoneV, StrV(<<>>), StrV(<< "k" >>) } :
       ProcessorConstructed(use, openai, anthropic)
  /\ InterfaceConstructed
  /\ SchedulerConstructed

\* The texts given to parse.
ParseCommands ==
  Commands({ <<>>, <<"h", "e", "l", "p">>, <<"s", "h", "o", "w">>,
             <<"s", "t", "a", "t", "u", "s">>, <<"x">> },
           MaxLlmWords)

NextParse == Parse(ParseCommands)

SpecParse == InitParse /\ [][NextParse]_vars

\* ------------------------------------------------ the interface called alone

\* NaturalLanguageInterface(): a processor with use_llm on and the keys of
\* the environment.
InitInterface ==
  /\ Constructed
  /\ value = NoneV
  /\ resolved = NoneV
  /\ workflow_name = StrV(<< "w" >>)
  /\ workflow_description = StrV(<<>>)
  /\ WorkflowConstructed
  /\ exported = NoneV
  /\ imported = NoneV
  /\ \E openai \in { NoneV, StrV(<< "k" >>) }, anthropic \in { NoneV, StrV(<< "k" >>) } :
       ProcessorConstructed(TRUE, openai, anthropic)
  /\ InterfaceConstructed
  /\ SchedulerConstructed

\* The commands given to process.
InterfaceCommands ==
  { <<>>, <<"h", "e", "l", "p">>, <<"s", "h", "o", "w", " ", "x">>,
    <<"l", "i", "s", "t", " ", "f", "i", "l", "e", "s">>, <<"x">> }

NextInterface == Process(InterfaceCommands)

SpecInterface == InitInterface /\ [][NextInterface]_vars

\* ------------------------------------------------------ the scheduler alone

NextScheduler ==
  \/ RunContinuously
  \/ ThreadStep
  \/ StopCalled
  \/ StopReturns

SpecScheduler == Init /\ [][NextScheduler]_vars

\* ------------------------------------------------------ reading the run

\* The position of the step a record names.
StepIndex(name) == CHOOSE i \in 1..Len(StepNames) : StepNames[i] = name

\* The dispatches of step i in this run, and those that raised.
Dispatches(i) == { d \in 1..Len(dispatched) : dispatched[d].step = i }
Raises(i) == { d \in Dispatches(i) : dispatched[d].raised }

\* The records of step i in this run.
RecordsOf(i) == { j \in 1..Len(step_results) : step_results[j].name = steps[i].name }

\* Step i raised on every one of its retry_count + 1 attempts.
Exhausted(i) ==
  /\ steps[i].retry_count >= 0
  /\ Cardinality(Raises(i)) = steps[i].retry_count + 1

\* Some step of this run was recorded 'failed'.
SomeFailed == \E j \in 1..Len(step_results) : step_results[j].status = "failed"

\* The text s from position p on with every placeholder the regular
\* expression finds replaced once: by str() of the value its name is bound
\* to, or by itself when the name is unbound.
RECURSIVE SubstituteFrom(_, _, _)
SubstituteFrom(s, p, ctx) ==
  IF p > Len(s) THEN <<>>
  ELSE LET e == WordEnd(s, p + 2) IN
       IF /\ p + 1 <= Len(s)
          /\ s[p] = "{"
          /\ s[p + 1] = "{"
          /\ e >= p + 2
          /\ e + 2 <= Len(s)
          /\ s[e + 1] = "}"
          /\ s[e + 2] = "}"
       THEN (IF SubSeq(s, p + 2, e) \in DOMAIN ctx
             THEN PyStr(ctx[SubSeq(s, p + 2, e)])
             ELSE SubSeq(s, p, e + 2))
            \o SubstituteFrom(s, e + 3, ctx)
       ELSE <<s[p]>> \o SubstituteFrom(s, p + 1, ctx)

\* A str that holds a placeholder and something else beside it.
IsPartialTemplate(val) ==
  /\ val.t = "str"
  /\ FindAll(val.v) # <<>>
  /\ val.v # Placeholder(FindAll(val.v)[1])


\* ------------------------------------------------------------------ claims

\* C1: a step with on_error = 'fail' that raised on every one of its
\* retry_count + 1 attempts is the last step the run touches: no later step
\* is dispatched or recorded, the loop is left at that step, and the report
\* has status 'failed' and failed_step equal to the step's name.
FailFast ==
  \A i \in 1..Len(steps) :
    (Exhausted(i) /\ steps[i].on_error = "fail") =>
      /\ \A d \in 1..Len(dispatched) : dispatched[d].step <= i
      /\ \A j \in 1..Len(step_results) : StepIndex(step_results[j].name) <= i
      /\ failed
      /\ failed_step = StrV(steps[i].name)
      /\ pc \in {"return", "done"}
      /\ idx = i
      /\ pc = "done" =>
           /\ report.v.status = "failed"
           /\ report.v.failed_step = StrV(steps[i].name)
           /\ report.v.steps = step_results

\* A run that ended at a 'fail' step which was retried and is not the last.
FailFastWitness ==
  /\ pc = "done"
  /\ report.v.status = "failed"
  /\ \E i \in 1..Len(steps) :
       /\ i < Len(steps)
       /\ steps[i].on_error = "fail"
       /\ steps[i].retry_count >= 1
       /\ Exhausted(i)

\* C2: using up the attempts of a step whose policy is not 'skip' is fatal:
\* the step is recorded 'failed', the run is marked failed, and no later
\* step is dispatched.
ExhaustionIsFatal ==
  \A i \in 1..Len(steps) :
    (Exhausted(i) /\ steps[i].on_error # "skip") =>
      /\ \E j \in RecordsOf(i) : step_results[j].status = "failed"
      /\ failed
      /\ \A d \in 1..Len(dispatched) : dispatched[d].step <= i

\* C3: a step with on_error = 'skip' that raised on every attempt gets one
\* record, 'skipped' with the error raised last; the run does not stop at
\* it; and a run in which no step is recorded 'failed' visits every step and
\* reports 'completed' with failed_step unset.
SkipDoesNotHalt ==
  \A i \in 1..Len(steps) :
    (Exhausted(i) /\ steps[i].on_error = "skip") =>
      /\ Cardinality(RecordsOf(i)) = 1
      /\ \A j \in RecordsOf(i) :
           /\ step_results[j].status = "skipped"
           /\ "error" \in DOMAIN step_results[j]
           /\ \A d \in Raises(i) :
                (\A e \in Raises(i) : e <= d) => step_results[j].error = dispatched[d].error
      /\ ~(pc \in {"return", "done"} /\ idx = i)
      /\ (pc = "done" /\ ~SomeFailed) =>
           /\ idx = Len(steps) + 1
           /\ report.v.status = "completed"
           /\ report.v.failed_step = NoneV

\* A completed run in which a retried 'skip' step was followed by a step
\* that completed.
SkipDoesNotHaltWitness ==
  /\ pc = "done"
  /\ report.v.status = "completed"
  /\ \E i \in 1..Len(steps) :
       /\ steps[i].on_error = "skip"
       /\ steps[i].retry_count >= 1
       /\ Exhausted(i)
       /\ \E j \in 1..Len(step_results) :
            /\ StepIndex(step_results[j].name) > i
            /\ step_results[j].status = "completed"

ConditionErrorProceeds ==
  /\ [][ ( /\ pc = "step"
           /\ idx <= Len(steps)
           /\ steps[idx].condition = CondV("context['x']")
           /\ S_x \notin DOMAIN context )
         => ( /\ pc' = "attempt"
              /\ idx' = idx
              /\ attempts' = 0
              /\ step_results' = step_results ) ]_vars
  /\ [](\A i \in 1..Len(steps) :
          (steps[i].condition = CondV("context['x']") /\ S_x \notin DOMAIN context) =>
            /\ \A j \in RecordsOf(i) : "reason" \notin DOMAIN step_results[j]
            /\ (pc = "done" /\ idx > i /\ steps[i].retry_count >= 0) =>
                 /\ Dispatches(i) # {}
                 /\ RecordsOf(i) # {})

\* A step whose condition raised has completed, and the run went on to the
\* next step.
ConditionErrorProceedsWitness ==
  \E i \in 1..Len(steps) :
    /\ steps[i].condition = CondV("context['x']")
    /\ S_x \notin DOMAIN context
    /\ idx > i
    /\ \E j \in RecordsOf(i) : step_results[j].status = "completed"

\* C7: the names of the records of the report, in order, are the names of
\* the steps the executor visited, in the order they were appended: one
\* record per visited step, so the list is a prefix of the step sequence.
ReportFollowsStepOrder ==
  /\ \A j \in 1..Len(step_results) :
       /\ j <= Len(steps)
       /\ step_results[j].name = steps[j].name
  /\ pc = "done" =>
       Len(step_results) = (IF idx > Len(steps) THEN Len(steps) ELSE idx)

\* C5: a step whose condition is false gets a 'skipped' record with a
\* duration of zero, is not dispatched, and leaves the context and the
\* results map as they were.
ConditionFalseSkipsWithZeroDuration ==
  [][ ( /\ pc = "step"
        /\ idx <= Len(steps)
        /\ steps[idx].condition \in {CondV("False"), CondV("context.get('x')")}
        /\ ~(steps[idx].condition = CondV("context.get('x')")
             /\ S_x \in DOMAIN context /\ Truthy(context[S_x])) )
      => ( /\ Len(step_results') = Len(step_results) + 1
           /\ step_results'[Len(step_results')].name = steps[idx].name
           /\ step_results'[Len(step_results')].status = "skipped"
           /\ "duration" \in DOMAIN step_results'[Len(step_results')]
           /\ step_results'[Len(step_results')].duration = 0
           /\ dispatched' = dispatched
           /\ context' = context
           /\ results' = results ) ]_vars

ParamsResolvedAtDispatch ==
  [][ /\ (pc # "build" => steps' = steps)
      /\ (Len(dispatched') > Len(dispatched)) =>
           LET call == dispatched'[Len(dispatched')]
               step == steps[call.step]
           IN /\ DOMAIN call.params = DOMAIN step.params
              /\ \A key \in DOMAIN step.params :
                   /\ (step.params[key] = StrV(Placeholder(S_x)) /\ S_x \in DOMAIN results)
                        => call.params[key] = results[S_x]
                   /\ (step.params[key] = StrV(Placeholder(S_x)) /\ S_x \in DOMAIN context)
                        => call.params[key] = context[S_x]
                   /\ (step.params[key] = StrV(<<"p">> \o Placeholder(S_x))
                         /\ S_x \in DOMAIN context /\ context[S_x].t = "str")
                        => call.params[key] = StrV(<<"p">> \o context[S_x].v)
                   /\ (step.params[key] = StrV(Placeholder(S_x)) /\ S_x \notin DOMAIN context)
                        => call.params[key] = step.params[key]
                   /\ step.params[key] = StrV(S_a) => call.params[key] = StrV(S_a) ]_vars

\* A step with the param {{x}} was dispatched twice, both times with the
\* list an earlier step of the run saved as x.
ParamsResolvedAtDispatchWitness ==
  \E d, e \in 1..Len(dispatched) :
    /\ d < e
    /\ dispatched[d].step = dispatched[e].step
    /\ steps[dispatched[d].step].params = Dict1(S_path, StrV(Placeholder(S_x)))
    /\ S_x \in DOMAIN results
    /\ results[S_x] = FileList
    /\ dispatched[d].params = Dict1(S_path, FileList)
    /\ dispatched[e].params = Dict1(S_path, FileList)

\* C10: resolving the str that is exactly the placeholder of a name bound
\* in the context returns the bound value itself, with its type, whether a
\* str, a number, a list or a mapping.
LonePlaceholderIsValue ==
  pc = "resolved" =>
    \A k \in DOMAIN context :
      value = StrV(Placeholder(k)) => resolved = context[k]

\* The lone placeholder {{x}} was resolved to the mapping x is bound to.
LonePlaceholderIsValueWitness ==
  /\ pc = "resolved"
  /\ value = StrV(Placeholder(S_x))
  /\ S_x \in DOMAIN context
  /\ context[S_x] = ApiResponse
  /\ resolved = ApiResponse

\* C11: resolving a str that holds a placeholder beside other text returns
\* a str: the input with every placeholder of a bound name replaced by str()
\* of its value and every placeholder of an unbound name left as it is.
PartialTemplateIsSubstituted ==
  (pc = "resolved" /\ IsPartialTemplate(value)) =>
    resolved = StrV(SubstituteFrom(value.v, 1, context))

\* C12: when the report of a run has status 'failed', its failed_step is
\* the name of the first record, in the order of execution, whose status is
\* 'failed'.
FailedStepIsFirstFailed ==
  (pc = "done" /\ report.v.status = "failed") =>
    \E j \in 1..Len(step_results) :
      /\ step_results[j].status = "failed"
      /\ \A k \in 1..(j - 1) : step_results[k].status # "failed"
      /\ report.v.failed_step = StrV(step_results[j].name)

\* C13: run does not let a failure out: whatever the operations, the
\* conditions and the retry settings of the steps do, no error leaves run,
\* and the report it returns has status 'completed' or 'failed'.
RunNeverPropagates ==
  /\ pc # "raised"
  /\ pc = "done" => report.v.status \in {"completed", "failed"}

\* C14: reset returns the base workflow to its pre-run state after any run,
\* returned or raised: every step is PENDING with result, error, started_at
\* and completed_at cleared, as add_step built it; the context is empty and
\* the timestamps of the workflow are cleared; names, order, actions,
\* conditions, handlers and retry settings of the steps and the registered
\* callbacks are as before.  A workflow that is not running is in that state.
ResetRestoresPreRunState ==
  /\ [][ (wf_pc \in {"done", "raised"} /\ wf_pc' = "build") =>
           /\ Len(wf_steps') = Len(wf_steps)
           /\ \A i \in 1..Len(wf_steps) :
                /\ wf_steps'[i].status = "pending"
                /\ wf_steps'[i].result = NoneV
                /\ wf_steps'[i].error = NoneV
                /\ wf_steps'[i].started_at = NoneV
                /\ wf_steps'[i].completed_at = NoneV
                /\ wf_steps'[i].name = wf_steps[i].name
                /\ wf_steps'[i].action = wf_steps[i].action
                /\ wf_steps'[i].condition = wf_steps[i].condition
                /\ wf_steps'[i].on_error = wf_steps[i].on_error
                /\ wf_steps'[i].retry_count = wf_steps[i].retry_count
                /\ wf_steps'[i].retry_delay = wf_steps[i].retry_delay
           /\ wf_context' = EmptyDict
           /\ wf_started_at' = NoneV
           /\ wf_completed_at' = NoneV
           /\ wf_on_start' = wf_on_start
           /\ wf_on_complete' = wf_on_complete
           /\ wf_on_error' = wf_on_error ]_vars
  /\ [](wf_pc = "build" =>
          /\ \A i \in 1..Len(wf_steps) :
               wf_steps[i] =
                 [WorkflowStep(wf_steps[i].name, wf_steps[i].action)
                    EXCEPT !.condition = wf_steps[i].condition,
                           !.on_error = wf_steps[i].on_error,
                           !.retry_count = wf_steps[i].retry_count,
                           !.retry_delay = wf_steps[i].retry_delay]
          /\ wf_context = EmptyDict
          /\ wf_started_at = NoneV
          /\ wf_completed_at = NoneV)

\* A workflow of two steps with callbacks registered was reset after a run
\* in which a step failed and the error callback was called.
ResetRestoresPreRunStateWitness ==
  /\ wf_pc = "build"
  /\ wf_runs >= 1
  /\ Len(wf_steps) = 2
  /\ Truthy(wf_on_start)
  /\ \E c \in 1..Len(wf_calls) : wf_calls[c].what = "on_error"

\* C15: a base workflow built by n add_step calls whose actions all return
\* gets, when run returns, status 'COMPLETED' and a per-step report of
\* exactly n entries, one for each step added.
AllStepsReported ==
  ( /\ wf_pc = "done"
    /\ \A i \in 1..Len(wf_steps) : wf_steps[i].action = CallableV("returns") )
  => /\ wf_report.v.status = "COMPLETED"
     /\ Cardinality(DOMAIN wf_report.v.steps) = Len(wf_steps)
     /\ \A i \in 1..Len(wf_steps) : wf_steps[i].name \in DOMAIN wf_report.v.steps

\* C16: to_json followed by from_json gives a workflow with the same name
\* and description and the same steps in the same order, each with the same
\* name, step type, condition, on_error, retry_count and save_result_as,
\* and with the same params but for the top-level entries that hold a
\* callable, which are dropped.
JsonRoundTripPreserves ==
  /\ pc # "raised"
  /\ pc = "imported" =>
       /\ imported.name = workflow_name
       /\ imported.description = workflow_description
       /\ Len(imported.steps) = Len(steps)
       /\ \A i \in 1..Len(steps) :
            /\ imported.steps[i].name = steps[i].name
            /\ imported.steps[i].step_type = steps[i].step_type
            /\ imported.steps[i].condition = steps[i].condition
            /\ imported.steps[i].on_error = steps[i].on_error
            /\ imported.steps[i].retry_count = steps[i].retry_count
            /\ imported.steps[i].save_result_as = steps[i].save_result_as
            /\ imported.steps[i].params =
                 [k \in { q \in DOMAIN steps[i].params : steps[i].params[q].t # "callable" }
                    |-> steps[i].params[k]]

\* C17: a text that no registered pattern matches, the empty text included,
\* is parsed by the rules to UNKNOWN with confidence 0.0, no entities and a
\* non-empty suggested action; no pattern matches the empty text, so the
\* division by the length of the text is never reached with length 0.
UnmatchedIsUnknown ==
  nlp_pc = "parsed" =>
    LET unmatched == \A r \in 1..Len(IntentPatterns) :
                       Search(IntentPatterns[r].pattern, text.v) = NoMatch
    IN /\ text.v = <<>> => unmatched
       /\ unmatched =>
            /\ parsed.intent = "unknown"
            /\ parsed.confidence = [num |-> 0, den |-> 1, ulps |-> 0]
            /\ parsed.entities = EmptyDict
            /\ parsed.raw_text = text
            /\ parsed.suggested_action.t = "str"
            /\ parsed.suggested_action.v # <<>>

\* The empty text has been parsed to UNKNOWN.
UnmatchedIsUnknownWitness ==
  /\ nlp_pc = "parsed"
  /\ text = StrV(<<>>)
  /\ parsed.intent = "unknown"

\* C18: of the patterns that match the text, the rules return the intent,
\* confidence and entities of one with the greatest confidence, and of the
\* first in construction order when several share the greatest confidence.
FirstBestRuleWins ==
  nlp_pc = "parsed" =>
    LET match(r) == Search(IntentPatterns[r].pattern, text.v)
        matching == { r \in 1..Len(IntentPatterns) : match(r) # NoMatch }
        conf(r) == Confidence(match(r).end - match(r).start, Len(text.v))
        less(a, b) == \/ a.num * b.den < b.num * a.den
                      \/ a.num * b.den = b.num * a.den /\ a.ulps > b.ulps
    IN matching # {} =>
         \E r \in matching :
           /\ \A q \in matching : ~less(conf(r), conf(q))
           /\ \A q \in matching : q < r => less(conf(q), conf(r))
           /\ parsed.intent = IntentPatterns[r].intent
           /\ parsed.confidence = conf(r)
           /\ parsed.entities
                = ExtractEntities(IntentPatterns[r].intent, match(r), text.v)

\* Two patterns of different intents matched with the same, greatest
\* confidence and the intent of the earlier one was returned.
FirstBestRuleWinsWitness ==
  /\ nlp_pc = "parsed"
  /\ \E r, q \in 1..Len(IntentPatterns) :
       LET mr == Search(IntentPatterns[r].pattern, text.v)
           mq == Search(IntentPatterns[q].pattern, text.v)
       IN /\ r < q
          /\ mr # NoMatch
          /\ mq # NoMatch
          /\ Confidence(mr.end - mr.start, Len(text.v)) = parsed.confidence
          /\ Confidence(mq.end - mq.start, Len(text.v)) = parsed.confidence
          /\ IntentPatterns[q].intent # IntentPatterns[r].intent
          /\ parsed.intent = IntentPatterns[r].intent

\* C19: the confidence of every intent parse returns lies in [0,1]; when
\* the rules produced it, it is 0.0 for UNKNOWN and otherwise
\* min(0.9, matched length / length of the text + 0.3).
ConfidenceInUnitInterval ==
  nlp_pc = "parsed" =>
    /\ "num" \in DOMAIN parsed.confidence
    /\ 0 <= parsed.confidence.num
    /\ parsed.confidence.num <= parsed.confidence.den
    /\ (llm_response = NoneV \/ LlmRaises(llm_response.reply)) =>
         IF parsed.intent = "unknown"
         THEN parsed.confidence = [num |-> 0, den |-> 1, ulps |-> 0]
         ELSE \E r \in 1..Len(IntentPatterns) :
                LET m == Search(IntentPatterns[r].pattern, parsed.raw_text.v)
                IN /\ m # NoMatch
                   /\ parsed.confidence
                        = Confidence(m.end - m.start, Len(parsed.raw_text.v))

StatusMovesForwardOnly ==
  /\ [][ wf_pc \notin {"build", "done", "raised"} =>
           \A i \in 1..Len(wf_steps) :
             \/ wf_steps'[i].status = wf_steps[i].status
             \/ << wf_steps[i].status, wf_steps'[i].status >>
                  \in { << "pending", "skipped" >>, << "pending", "running" >>,
                        << "running", "completed" >>, << "running", "failed" >> } ]_vars
  /\ [](Cardinality({ i \in 1..Len(wf_steps) : wf_steps[i].status = "running" }) <= 1)
  /\ [](wf_pc = "done" =>
          LET failedSteps == { i \in 1..Len(wf_steps) : wf_steps[i].status = "failed" }
          IN /\ \A i \in 1..Len(wf_steps) : wf_steps[i].status # "running"
             /\ Cardinality(failedSteps) <= 1
             /\ \A f \in failedSteps : \A i \in (f + 1)..Len(wf_steps) :
                  /\ wf_steps[i].status = "pending"
                  /\ \A c \in 1..Len(wf_calls) : wf_calls[c].step # i)

\* C25: the start callback is called once, before anything else; a step's
\* own error handler and then the workflow's are called once each right
\* after the last failed attempt of a step and after no earlier attempt,
\* and what they raise leaves the step and the run FAILED; the completion
\* callback is called once, last, when run gets past the last step with no
\* step failed, and is not called when a step failed.
CallbacksRunInOrder ==
  LET n == Len(wf_calls)
      is(c, what) == c <= n /\ wf_calls[c].what = what
      count(what) == Cardinality({ c \in 1..n : wf_calls[c].what = what })
      failures(i, c) == Cardinality({ d \in 1..c : /\ wf_calls[d].what = "action"
                                                   /\ wf_calls[d].step = i
                                                   /\ wf_calls[d].raised })
      handlers(step) ==
        (IF Truthy(step.on_error) THEN << "step_on_error" >> ELSE <<>>)
          \o (IF Truthy(wf_on_error) THEN << "on_error" >> ELSE <<>>)
  IN wf_pc # "build" =>
     /\ Truthy(wf_on_start) =>
          /\ is(1, "on_start")
          /\ count("on_start") = 1
     /\ ~Truthy(wf_on_start) => count("on_start") = 0
     /\ \A c \in 1..n :
          (wf_calls[c].what = "action" /\ wf_calls[c].raised) =>
            LET i == wf_calls[c].step
                hs == handlers(wf_steps[i])
            IN IF failures(i, c) = wf_steps[i].retry_count + 1
               THEN /\ n = c + Len(hs)
                    /\ \A h \in 1..Len(hs) :
                         wf_calls[c + h].what = hs[h] /\ wf_calls[c + h].step = i
                    /\ wf_failed
                    /\ wf_steps[i].status = "failed"
                    /\ wf_pc \in {"finish", "done"}
                    /\ wf_pc = "done" => wf_report.v.status = "FAILED"
               ELSE c < n => is(c + 1, "action") /\ wf_calls[c + 1].step = i
     /\ count("step_on_error") <= 1
     /\ count("on_error") <= 1
     /\ \A c \in 1..n :
          wf_calls[c].what \in {"step_on_error", "on_error"} =>
            \E d \in 1..(c - 1) :
              /\ wf_calls[d].what = "action"
              /\ wf_calls[d].raised
              /\ c - d <= 2
              /\ failures(wf_calls[d].step, d) = wf_steps[wf_calls[d].step].retry_count + 1
     /\ count("on_complete") <= 1
     /\ \A c \in 1..n :
          wf_calls[c].what = "on_complete" =>
            /\ c = n
            /\ \A i \in 1..Len(wf_steps) : wf_steps[i].status # "failed"
            /\ wf_idx > Len(wf_steps)
     /\ (wf_pc = "done" /\ Truthy(wf_on_complete)) =>
          (count("on_complete") = 1 <=> wf_report.v.status = "COMPLETED")
     /\ (wf_pc = "done" /\ wf_report.v.status = "COMPLETED") =>
          \A i \in 1..Len(wf_steps) : wf_steps[i].status # "failed"

\* A run with all three callbacks registered returned FAILED after a step
\* failed on its only attempt and both error handlers were called, the
\* step's own raising; the completion callback was not called.
CallbacksRunInOrderWitness ==
  /\ wf_pc = "done"
  /\ wf_report.v.status = "FAILED"
  /\ Truthy(wf_on_start)
  /\ Truthy(wf_on_complete)
  /\ Len(wf_calls) >= 4
  /\ wf_calls[Len(wf_calls) - 1].what = "step_on_error"
  /\ wf_calls[Len(wf_calls) - 1].raised
  /\ wf_calls[Len(wf_calls)].what = "on_error"

\* C27: in the report of the base workflow a step has an error only if its
\* status is 'failed'; a step that failed and then succeeded on a retry is
\* 'completed' with error None.
ErrorOnlyOnFailed ==
  wf_pc = "done" =>
    \A name \in DOMAIN wf_report.v.steps :
      wf_report.v.steps[name].error # NoneV
        => wf_report.v.steps[name].status = "failed"

\* C26: run leaves the loop over the steps early only right after a step
\* that was itself recorded 'failed'; after a step that completed or was
\* skipped it goes on to the next step.
StopsOnlyAfterFailedStep ==
  (pc \in {"return", "done"} /\ idx < Len(steps)) =>
    \E j \in RecordsOf(idx) : step_results[j].status = "failed"


\* C28: when run is called a second time on the same instance with no
\* initial context, and every step logs a message (an operation that behaves
\* alike both times), the second report lists the same per-step statuses as
\* the first.
RerunGivesSameStatuses ==
  (pc = "done" /\ run_count >= 1
     /\ \A i \in 1..Len(steps) : steps[i].step_type = "log_message") =>
    [i \in 1..Len(report.v.steps) |->
       << report.v.steps[i].name, report.v.steps[i].status >>]
    = [i \in 1..Len(previous_report.steps) |->
       << previous_report.steps[i].name, previous_report.steps[i].status >>]

\* C29: once steps are appended, no step of run changes self.steps: same
\* steps, same order, same stored params; and no call of a custom step,
\* whether a retry or in a later run, misses its action.
RunLeavesDefinitionUnchanged ==
  /\ [][pc # "build" => steps' = steps]_vars
  /\ [](\A d \in 1..Len(dispatched) :
          steps[dispatched[d].step].step_type = "custom" =>
            dispatched[d].error # "KeyError")

\* A second run is over in which a custom step raised, was retried and
\* returned, and the step still holds its action.
RunLeavesDefinitionUnchangedWitness ==
  /\ pc = "done"
  /\ run_count >= 1
  /\ \E d \in 1..Len(dispatched) - 1 :
       /\ dispatched[d].step = dispatched[d + 1].step
       /\ steps[dispatched[d].step].step_type = "custom"
       /\ S_action \in DOMAIN steps[dispatched[d].step].params
       /\ dispatched[d].raised
       /\ ~dispatched[d + 1].raised


\* C21: no call of process raises; its outcome has success true with a
\* result, or success false with the message of the exception raised during
\* the dispatch.
ProcessNeverRaises ==
  process_calls > 0 =>
    /\ ~process_outcome.raised
    /\ IF process_outcome.value.success
       THEN "result" \in DOMAIN process_outcome.value
       ELSE /\ "error" \in DOMAIN process_outcome.value
            /\ process_outcome.value.error # ""

\* C22: a call of process makes at most one call on self.rpa; when the
\* parsed intent lacks the entity its branch needs (path, source and
\* destination, url, form path) it makes none, raises nothing and returns the
\* guidance text as its result.
AtMostOneCapabilityCall ==
  process_calls > 0 =>
    LET has(key) == key \in DOMAIN parsed.entities /\ Truthy(parsed.entities[key])
        lacks ==
          \/ /\ parsed.intent \in {"read_file", "write_file", "delete_file",
                                   "read_spreadsheet", "extract_pdf"}
             /\ ~has(S_path)
          \/ /\ parsed.intent \in {"copy_file", "move_file"}
             /\ \/ ~has(<<"s", "o", "u", "r", "c", "e">>)
                \/ ~has(<<"d", "e", "s", "t", "i", "n", "a", "t", "i", "o", "n">>)
          \/ /\ parsed.intent \in {"fetch_url", "scrape_page"}
             /\ ~has(S_url)
          \/ /\ parsed.intent = "fill_form"
             /\ ~has(<<"f", "o", "r", "m", "_", "p", "a", "t", "h">>)
    IN /\ Len(rpa_calls) <= 1
       /\ lacks =>
            /\ rpa_calls = <<>>
            /\ ~process_outcome.raised
            /\ process_outcome.value.success
            /\ process_outcome.value.result.t = "str"
            /\ SubSeq(process_outcome.value.result.v, 1, 6)
                 = <<"P", "l", "e", "a", "s", "e">>

\* C23: history only grows at its end, by one entry (command, intent,
\* confidence) for each call of process, whatever the dispatch does, so it
\* has as many entries as process was called.
HistoryGrowsByOne ==
  /\ [](Len(history) = process_calls)
  /\ [][process_calls' = process_calls + 1 =>
          history' = Append(history, [ command |-> text', intent |-> parsed'.intent,
                                       confidence |-> parsed'.confidence ])]_vars


\* C30: whatever run_continuously and stop calls are made, at most one
\* background thread is in the polling loop, at most one is inside
\* run_pending, and a thread started before a stop that has returned does not
\* enter run_pending again.
PollingNeverOverlaps ==
  /\ [](Cardinality({t \in 1..Len(sched_threads) : sched_threads[t] # "ended"}) <= 1)
  /\ [](Cardinality({t \in 1..Len(sched_threads) : sched_threads[t] = "run_pending"}) <= 1)
  /\ [][\A t \in stopped :
          sched_threads'[t] = "run_pending" => sched_threads[t] = "run_pending"]_vars

====
